---- MODULE Spec2Model ----
(***************************************************************************)
(* Job-discovery and ranking pipeline of the application backend.          *)
(*                                                                         *)
(*   services/ranking/ranker.py            rank_and_filter_jobs            *)
(*   services/job_search.py                the stage graph, the page       *)
(*                                         processor                       *)
(*   services/agent_nodes/web_search.py    find_urls_node                  *)
(*   services/agent_nodes/process_match.py process_and_match_node          *)
(*                                                                         *)
(* Numbers.  Similarities and signals are fractions of 1; the model keeps  *)
(* them as integers in hundredths (a cosine of 0.37 is 37).  The weighted  *)
(* sums are kept exactly, in the scale named at each definition, so that   *)
(* no comparison of two scores depends on rounding.                        *)
(***************************************************************************)
EXTENDS Integers, Sequences, FiniteSets, TLC

VARIABLES
    \* ---- rank_and_filter_jobs (ranker.py) ----
    rankJobs,       \* the argument jobs: a sequence of job records
    rankParams,     \* the argument filter_params, with the defaults filled in
    rankIdx,        \* position of the for loop of line 135 (next job, 1-based)
    top_k_heap,     \* the list top_k_heap of line 132, a binary min-heap
    rankPc,         \* "idle" | "loop" | "drain" | "returned" | "raised"
    sorted_job_scores, \* the list of lines 296-302, filled from the heap
    rankResult,     \* the returned list (job records)
    rankCall,       \* 1: the call on the given list; 2: the call on the list
                    \* the first call returned
    first_sorted,   \* sorted_job_scores as the first call left it, or None
    \* ---- the resources of the URL tasks of the page processor ----
    context,        \* per URL: the browser context of process_url
                    \* (job_search.py:36-38): "none" | "open" | "closed"
    fetch_count,    \* per URL: fetches begun for it in this stage
    \* ---- extract_job_details_node (page_processing.py) ----
    extractPc,      \* "idle" | "start" | "invoke" | "dump" | "persist" |
                    \* "returned" | "raised"
    current_page_text, \* state["current_page_text"]: "" or the text
    current_url,    \* state["current_url"]
    extractor_outcome, \* what building and invoking the extraction chain does
    persist_outcome,\* what get_mongo_client and ingest_job_and_embed do
    extracted_data, \* the local extracted_data: None or <<job>>
    extract_update, \* the dict the node returned, as a set of <<key, value>>
    persisted,      \* the jobs ingest_job_and_embed has stored
    \* ---- extract_urls_node (extract_urls.py) ----
    linkPc,         \* "idle" | "start" | "collected" | "filtered" |
                    \* "returned" | "raised"
    has_page,       \* state has a "page"
    page_links,     \* the href attributes of the a[href] elements of the page
    urls_extracted_job_boards, \* state["urls_extracted_job_boards"]
    job_links,      \* the set job_links of line 49
    filtered_links, \* the local filtered_links, iterated as line 124 does
    links_update,   \* the list returned under "urls_extracted_job_boards", or None
    \* ---- one run of JobSearchService.search_and_process_jobs ----
    stage,          \* "init", the node of the graph that runs next or is
                    \* running, "Done" or "Failed"
    steps,          \* nodes executed so far (bounded by recursion_limit)
    resume_text,    \* "" or the text
    search_prompt,  \* "" or the text
    search_queries, \* state['search_queries']
    urls_to_process,\* state['urls_to_process']
    extracted_jobs, \* state['extracted_jobs']
    final_jobs,     \* state['final_jobs']: None until process_and_match
    \* ---- find_urls_node (web_search.py) ----
    findPc,         \* "idle" | "loop" | "calling" | "sleep" | "returned"
    queryIdx,       \* position of the for loop of line 18 (1-based)
    all_urls,       \* the set all_urls of line 13
    link_repeated,  \* all_urls.add of line 24 was given a link the set already had
    calls_in_flight,\* search-provider calls begun and not yet ended
    delay_done,     \* no call has ended since the loop began or since the
                    \* last asyncio.sleep(1) of line 27
    last_response,  \* what the last ended call gave: "none" | "ok" | "malformed"
    \* ---- the page processor (job_search.py / retrieve_parse.py) ----
    processor,      \* which function runs the batch
    pagePc,         \* "idle" | "gather_pages" | "gather_details"
    batchUrls,      \* the local urls_to_process of job_search.py:24
    pageOutcome,    \* per URL of the batch: what fetch/classify/extract do
    taskPc,         \* per URL task: "waiting" | "running" | "done"
    results,        \* per URL task: its return value
    detailPc,       \* per URL: "none" | "running" | "done" (extract task)
    detailResult,   \* per URL: the return value of the extract task
    job_board_pages,\* the local list of job_search.py:63
    node_return,    \* the dict the page processor returned, or None
    \* ---- POST /agent-search and its background task (routers/jobs.py) ----
    routePc,        \* where agent_search / run_search stands
    user_id,        \* current_user.id of the request
    task_record,    \* the value Redis holds at task:{task_id}, or None
    redis_writes,   \* redis_client.set calls made so far
    request_result, \* "pending" | "returned" | "raised": the POST request
    search_started, \* run_search was handed to background_tasks
    pipeline_result,\* "none" | "result" | "raised": search_and_process_jobs
    task_jobs,      \* len(final_jobs) in run_search
    db_result,      \* "none" | "skipped" | "ok" | "raised": insert_many
    \* ---- the signals of one job in rank_and_filter_jobs (ranker.py) ----
    sigPc,          \* "idle" | "start" | "resolved" | "overall" | "final"
    weights_arg,    \* "omitted" | "no_weights" | "given": filter_params
    weights,        \* filter_params['weights'] after lines 78-101, in tenths
    resume_skills,  \* parsed_resume['skills'] as a set
    job_skills,     \* parsed_job['skills'] as a set
    resume_exp,     \* parsed_resume['experience_level']
    job_exp,        \* parsed_job['experience_level']
    skill_overlap,  \* the local skill_overlap, a fraction [num, den], or None
    exp_match,      \* the local exp_match of line 165 (hundredths), or None
    experience_match \* the local experience_match of lines 227-234, or None

rankVars == <<rankJobs, rankParams, rankIdx, top_k_heap, rankPc, sorted_job_scores, rankResult>>

runVars == <<stage, steps, resume_text, search_prompt, search_queries,
             urls_to_process, extracted_jobs, final_jobs>>

findVars == <<findPc, queryIdx, all_urls, link_repeated, calls_in_flight, delay_done,
              last_response>>

pageVars == <<processor, pagePc, batchUrls, pageOutcome, taskPc, results, detailPc, detailResult>>

boardVars == <<job_board_pages, node_return>>

againVars == <<rankCall, first_sorted>>

slotVars == <<context, fetch_count>>

extractVars == <<extractPc, current_page_text, current_url, extractor_outcome,
                 persist_outcome, extracted_data, extract_update, persisted>>

linkVars == <<linkPc, has_page, page_links, urls_extracted_job_boards, job_links,
              filtered_links, links_update>>

\* The variables of the parts that are looked at on their own.
otherVars == <<againVars, slotVars, extractVars, linkVars>>

\* otherVars without slotVars.
notSlotVars == <<againVars, extractVars, linkVars>>

\* otherVars without againVars.
notAgainVars == <<slotVars, extractVars, linkVars>>

\* otherVars without extractVars.
notExtractVars == <<againVars, slotVars, linkVars>>

\* otherVars without linkVars.
notLinkVars == <<againVars, slotVars, extractVars>>

signalVars == <<sigPc, weights_arg, weights, resume_skills, job_skills, resume_exp, job_exp,
                skill_overlap, exp_match, experience_match>>

taskVars == <<routePc, user_id, task_record, redis_writes, request_result, search_started,
              pipeline_result, task_jobs, db_result>>

vars == <<rankJobs, rankParams, rankIdx, top_k_heap, rankPc, sorted_job_scores, rankResult,
          stage, steps, resume_text, search_prompt, search_queries,
          urls_to_process, extracted_jobs, final_jobs,
          findPc, queryIdx, all_urls, link_repeated, calls_in_flight, delay_done,
          last_response,
          processor, pagePc, batchUrls, pageOutcome, taskPc, results, detailPc, detailResult,
          job_board_pages, node_return,
          routePc, user_id, task_record, redis_writes, request_result, search_started,
          pipeline_result, task_jobs, db_result,
          sigPc, weights_arg, weights, resume_skills, job_skills, resume_exp, job_exp,
          skill_overlap, exp_match, experience_match,
          rankCall, first_sorted, context, fetch_count,
          extractPc, current_page_text, current_url, extractor_outcome,
          persist_outcome, extracted_data, extract_update, persisted,
          linkPc, has_page, page_links, urls_extracted_job_boards, job_links,
          filtered_links, links_update>>

\* An optional field that is not set is the empty tuple, a set one <<value>>.
None == <<>>

\* ------------------------------------------------------------------------
\* Bounds of the model
\* ------------------------------------------------------------------------
\* The longest job list handed to rank_and_filter_jobs: above k, so that
\* the heap is full and candidates are compared with its minimum.
MaxJobs == 103

\* The number of distinct links the search provider can return.
MaxUrls == 2

\* The largest number of queries craft_query_node produces.
MaxQueries == 2

\* The longest result list of one search.
MaxLinks == 2

\* The most a[href] elements on the job-board page extract_urls_node reads.
MaxPageLinks == 2

\* The batch the page processor is given when its semaphore is examined:
\* one more URL than the larger of the two caps.
MaxBatch == 11

\* The batch on which a fetch that never answers is examined: one more URL
\* than the smaller cap, so that the hanging fetches can hold every slot.
MaxHangBatch == 6

MaxUsers == 2

MaxTaskJobs == 2

MaxSkills == 3

\* ------------------------------------------------------------------------
\* Program constants
\* ------------------------------------------------------------------------
k == 100

recursion_limit == 100

ProcessUrlsCap == 10

RetrieveParseCap == 5

DefaultRoleRelevanceThreshold == 30

DefaultMinOverallScore == 0

PromptBoostThreshold == 50

DefaultProximity == 30

Min(a, b) == IF a < b THEN a ELSE b

Max(a, b) == IF a > b THEN a ELSE b

\* ------------------------------------------------------------------------
\* The score of lines 167-180: the one that is stored in JobScore.score and
\* pushed on the heap.  Signals in hundredths, weights in tenths: the value
\* is in thousandths.
\* ------------------------------------------------------------------------
\* model.encode(job.description) with a deterministic provider.  An
\* embedding of a description is kept as what it is used for, its cosine
\* with the resume embedding (hundredths); the encoder gives the job's
\* resume_similarity entry.
encode_description(job) == job.resume_similarity

\* Lines 144-148: the description embedding the similarity is taken with is
\* the one the Job carries, and the encoder's only when it carries none.
resume_similarity(job) ==
    IF job.description_embedding = None
    THEN encode_description(job)
    ELSE job.description_embedding[1]

\* Lines 144-145 and 152-154: the Job object is given the embeddings it
\* lacks; the title embedding only when there is a prompt.
StoreEmbeddings(job, params) ==
    [job EXCEPT
        !.description_embedding = IF @ = None THEN <<encode_description(job)>> ELSE @,
        !.has_title_embedding = @ \/ params.has_prompt]

overall_score(job, params) ==
    LET prompt_similarity == IF params.has_prompt THEN job.title_prompt_sim ELSE 0
    IN  resume_similarity(job) * 5
        + prompt_similarity * 2
        + job.skill_overlap * 2
        + job.exp_match * 1

\* The role relevance penalty of lines 255-269, in thousandths.
role_relevance(job, params) ==
    LET r0 == 1000
        r1 == IF params.has_prompt /\ job.title_prompt_sim < params.role_relevance_threshold
              THEN Max(r0 - (100 - job.title_prompt_sim) * 5, 0)
              ELSE r0
        r2 == IF (params.has_prompt \/ job.has_title_embedding)
                 /\ job.title_resume_sim < params.role_relevance_threshold
              THEN Max(r1 - (100 - job.title_resume_sim) * 5, 0)
              ELSE r1
    IN  r2

\* The weighted sum of lines 272-280 with the default weights, in
\* ten-thousandths.  The prompt similarity is the boosted one of lines
\* 214-216 (thousandths).
base_score(job, params) ==
    LET raw == IF params.has_prompt THEN job.title_prompt_sim ELSE 0
        boosted == IF params.has_prompt /\ raw > PromptBoostThreshold
                   THEN Min(raw * 12, 1000)
                   ELSE raw * 10
    IN  4 * resume_similarity(job) * 10
        + 3 * boosted
        + 2 * job.jaccard_overlap * 10
        + 1 * job.experience_match * 10
        + 4 * resume_similarity(job) * 10
        + 3 * job.proximity_score * 10

\* score of line 283, in units of 10^-7.
final_score(job, params) == base_score(job, params) * role_relevance(job, params)

\* min_overall_score (hundredths) in the units of final_score.
FinalScale == 100000

\* ------------------------------------------------------------------------
\* heapq on a list of (overall_score, JobScore) tuples.
\* An entry is [score |-> overall_score, job |-> id of the job object].
\* "<" on two tuples compares the scores; on equal scores it goes on to the
\* JobScore tuples, whose first field is the Job: two distinct Job objects
\* are unequal and do not support "<", so the comparison raises TypeError.
\* ------------------------------------------------------------------------
\* A comparison that takes two entries of equal score for equal.
TupleLtTiesEqual(x, y) ==
    IF x.score # y.score THEN (IF x.score < y.score THEN "lt" ELSE "ge")
    ELSE "ge"

TupleLt(x, y) ==
    IF x.score # y.score THEN (IF x.score < y.score THEN "lt" ELSE "ge")
    ELSE IF x.job = y.job THEN "ge"
    ELSE "raise"

\* heapq._siftdown(heap, startpos, pos) with newitem held aside; positions
\* are 1-based here (parent of p is p \div 2).
RECURSIVE SiftDown(_, _, _, _)
SiftDown(heap, startpos, pos, newitem) ==
    IF pos > startpos
    THEN LET parentpos == pos \div 2
             c == TupleLt(newitem, heap[parentpos])
         IN  IF c = "raise" THEN [heap |-> heap, err |-> TRUE]
             ELSE IF c = "lt"
                  THEN SiftDown([heap EXCEPT ![pos] = heap[parentpos]], startpos, parentpos, newitem)
                  ELSE [heap |-> [heap EXCEPT ![pos] = newitem], err |-> FALSE]
    ELSE [heap |-> [heap EXCEPT ![pos] = newitem], err |-> FALSE]

\* heapq.heappush(heap, item)
heappush(heap, item) ==
    LET h == Append(heap, item)
    IN  SiftDown(h, 1, Len(h), item)

\* heapq._siftup(heap, pos): move the smaller child up until a leaf, then
\* sift the held item down from there.
RECURSIVE SiftUp(_, _, _, _)
SiftUp(heap, startpos, pos, newitem) ==
    LET childpos == 2 * pos
        rightpos == childpos + 1
        endpos == Len(heap)
    IN  IF childpos <= endpos
        THEN LET c == IF rightpos <= endpos
                      THEN TupleLt(heap[childpos], heap[rightpos])
                      ELSE "lt"
                 pick == IF c = "lt" THEN childpos ELSE rightpos
             IN  IF c = "raise" THEN [heap |-> heap, err |-> TRUE]
                 ELSE SiftUp([heap EXCEPT ![pos] = heap[pick]], startpos, pick, newitem)
        ELSE SiftDown(heap, startpos, pos, newitem)

\* heapq.heappop(heap): [heap, item, err]
heappop(heap) ==
    LET lastelt == heap[Len(heap)]
        rest == SubSeq(heap, 1, Len(heap) - 1)
    IN  IF rest = <<>>
        THEN [heap |-> rest, item |-> lastelt, err |-> FALSE]
        ELSE LET r == SiftUp(rest, 1, 1, lastelt)
             IN  [heap |-> r.heap, item |-> heap[1], err |-> r.err]


\* sorted_job_scores.sort(key=lambda x: x[1], reverse=True): a stable sort
\* on the score alone, descending.  The place of an entry in the sorted
\* list is one more than the number of entries that go before it: those
\* with a greater score and those with the same score that stood earlier.
PlaceDesc(list, i) ==
    1 + Cardinality({j \in 1..Len(list) :
                        \/ list[j].score > list[i].score
                        \/ list[j].score = list[i].score /\ j < i})

\* The list as the heap gave it (ascending), the sort left out.
SortDescOmitted(list) == list

SortDesc(list) ==
    [p \in 1..Len(list) |-> list[CHOOSE i \in 1..Len(list) : PlaceDesc(list, i) = p]]

\* ------------------------------------------------------------------------
\* One iteration of the loop of lines 135-293 on job, with the heap as it
\* stands: [heap, err].
\* ------------------------------------------------------------------------
\* A full heap that keeps what it has, whatever the candidate's score.
PushTopKNoReplace(heap, entry) ==
    IF Len(heap) < k
    THEN heappush(heap, entry)
    ELSE [heap |-> heap, err |-> FALSE]

\* Lines 205-211.
PushTopK(heap, entry) ==
    IF Len(heap) < k
    THEN heappush(heap, entry)
    ELSE IF entry.score > heap[1].score
         THEN LET r == heappop(heap)
              IN  IF r.err THEN [heap |-> heap, err |-> TRUE]
                  ELSE heappush(r.heap, entry)
         ELSE [heap |-> heap, err |-> FALSE]

RankOne(heap, job, params) ==
    IF ~job.has_description
    THEN [heap |-> heap, err |-> FALSE]                          \* line 137
    ELSE LET s == overall_score(job, params)
         IN  IF s < params.role_relevance_threshold * 10
             THEN [heap |-> heap, err |-> FALSE]                  \* line 183
             ELSE PushTopK(heap, [score |-> s, job |-> job.id])
             \* Lines 213-293 compute final_score and, below
             \* min_overall_score, execute "continue" as the last statement
             \* of the body: the heap is not touched again.

\* Lines 295-305: the jobs of the heap entries by descending score; the Job
\* objects are returned as they are.
JobById(jobs, id) == jobs[CHOOSE i \in 1..Len(jobs) : jobs[i].id = id]

RankOutput(jobs, list) ==
    LET sorted == SortDesc(list)
    IN  [i \in 1..Len(sorted) |-> JobById(jobs, sorted[i].job)]

\* ------------------------------------------------------------------------
\* rank_and_filter_jobs, one loop iteration per step
\* ------------------------------------------------------------------------
RankJob ==
    /\ rankPc = "loop"
    /\ rankIdx <= Len(rankJobs)
    /\ LET job == IF rankJobs[rankIdx].has_description
                  THEN StoreEmbeddings(rankJobs[rankIdx], rankParams)
                  ELSE rankJobs[rankIdx]                       \* line 137
           r == RankOne(top_k_heap, job, rankParams)
       IN  /\ rankJobs' = [rankJobs EXCEPT ![rankIdx] = job]
           /\ IF r.err
              THEN /\ rankPc' = "raised"
                   /\ UNCHANGED <<top_k_heap, rankIdx>>
              ELSE /\ top_k_heap' = r.heap
                   /\ rankIdx' = rankIdx + 1
                   /\ rankPc' = "loop"
    /\ UNCHANGED <<rankParams, rankResult, sorted_job_scores>>
    /\ UNCHANGED <<runVars, findVars, pageVars>>
    /\ UNCHANGED <<boardVars, taskVars, signalVars, otherVars>>

\* The loop has ended: lines 295-296.
RankLoopEnd ==
    /\ rankPc = "loop"
    /\ rankIdx > Len(rankJobs)
    /\ rankPc' = "drain"
    /\ sorted_job_scores' = <<>>
    /\ UNCHANGED <<rankJobs, rankParams, rankIdx, top_k_heap, rankResult>>
    /\ UNCHANGED <<runVars, findVars, pageVars>>
    /\ UNCHANGED <<boardVars, taskVars, signalVars, otherVars>>

\* One iteration of the while loop of lines 297-299.
RankPop ==
    /\ rankPc = "drain"
    /\ top_k_heap # <<>>
    /\ LET r == heappop(top_k_heap)
       IN  IF r.err
           THEN /\ rankPc' = "raised"
                /\ UNCHANGED <<top_k_heap, sorted_job_scores>>
           ELSE /\ top_k_heap' = r.heap
                /\ sorted_job_scores' = Append(sorted_job_scores, r.item)
                /\ rankPc' = "drain"
    /\ UNCHANGED <<rankJobs, rankParams, rankIdx, rankResult>>
    /\ UNCHANGED <<runVars, findVars, pageVars>>
    /\ UNCHANGED <<boardVars, taskVars, signalVars, otherVars>>

\* Lines 301-305.
RankReturn ==
    /\ rankPc = "drain"
    /\ top_k_heap = <<>>
    /\ rankPc' = "returned"
    /\ rankResult' = RankOutput(rankJobs, sorted_job_scores)
    /\ UNCHANGED <<rankJobs, rankParams, rankIdx, top_k_heap, sorted_job_scores>>
    /\ UNCHANGED <<runVars, findVars, pageVars>>
    /\ UNCHANGED <<boardVars, taskVars, signalVars, otherVars>>

\* ------------------------------------------------------------------------
\* The job lists the ranking is run on.  A list of n jobs is drawn from a
\* family: the resume similarity of the i-th job is ((i * mult) % modulus)
\* - 20, which is strictly increasing (mult = 1), strictly decreasing
\* (mult = modulus - 1) or scrambled, and repeats when modulus < n; the
\* other signals are constant (vary = 0) or change with i (vary = 1).
\* ------------------------------------------------------------------------
ExperienceMatchTable == <<100, 57, 32, 14, 0>>

JobAt(i, mult, modulus, vary) ==
    [ id                  |-> i,
      source_url          |-> i,
      has_description     |-> (vary = 0 \/ i % 11 # 5),
      resume_similarity   |-> ((i * mult) % modulus) - 20,
      title_prompt_sim    |-> IF vary = 0 THEN 60 ELSE (i * 37) % 101,
      title_resume_sim    |-> IF vary = 0 THEN 40 ELSE (i * 53) % 101,
      skill_overlap       |-> IF vary = 0 THEN 100 ELSE 50 * (i % 3),
      exp_match           |-> IF vary = 0 THEN 100 ELSE 100 * (i % 2),
      jaccard_overlap     |-> IF vary = 0 THEN 50 ELSE 25 * (i % 3),
      experience_match    |-> ExperienceMatchTable[1 + (IF vary = 0 THEN 0 ELSE i % 5)],
      proximity_score     |-> DefaultProximity,
      has_title_embedding |-> FALSE,
      description_embedding |-> None,
      score               |-> None ]

JobCounts == (0..3) \cup ((k - 1)..MaxJobs)

Multipliers == {1, 45, 106}

Moduli == {7, 107}

FilterParams ==
    [ has_prompt : BOOLEAN,
      role_relevance_threshold : {0, DefaultRoleRelevanceThreshold},
      min_overall_score : {DefaultMinOverallScore, 50} ]

\* No signal computation is looked at.
SignalsIdle ==
    /\ sigPc = "idle"
    /\ weights_arg = "omitted"
    /\ weights = None
    /\ resume_skills = {}
    /\ job_skills = {}
    /\ resume_exp = "not specified"
    /\ job_exp = "not specified"
    /\ skill_overlap = None
    /\ exp_match = None
    /\ experience_match = None

\* extract_job_details_node is not looked at.
ExtractIdle ==
    /\ extractPc = "idle"
    /\ current_page_text = ""
    /\ current_url = 1
    /\ extractor_outcome = "job"
    /\ persist_outcome = "ok"
    /\ extracted_data = None
    /\ extract_update = {}
    /\ persisted = {}

\* extract_urls_node is not looked at.
LinksIdle ==
    /\ linkPc = "idle"
    /\ has_page = FALSE
    /\ page_links = <<>>
    /\ urls_extracted_job_boards = <<>>
    /\ job_links = {}
    /\ filtered_links = <<>>
    /\ links_update = None

\* No request is being handled.
TaskIdle ==
    /\ routePc = "idle"
    /\ user_id = 1
    /\ task_record = None
    /\ redis_writes = 0
    /\ request_result = "pending"
    /\ search_started = FALSE
    /\ pipeline_result = "none"
    /\ task_jobs = 0
    /\ db_result = "none"
    /\ SignalsIdle

InitRank ==
    /\ \E n \in JobCounts, mult \in Multipliers, modulus \in Moduli, vary \in {0, 1} :
          rankJobs = [i \in 1..n |-> JobAt(i, mult, modulus, vary)]
    /\ rankParams \in FilterParams
    /\ rankIdx = 1
    /\ top_k_heap = <<>>
    /\ rankPc = "loop"
    /\ sorted_job_scores = <<>>
    /\ rankResult = <<>>
    /\ rankCall = 1
    /\ first_sorted = None
    /\ stage = "process_and_match"
    /\ steps = 0
    /\ resume_text = "resume"
    /\ search_prompt = IF rankParams.has_prompt THEN "prompt" ELSE ""
    /\ search_queries = <<>>
    /\ urls_to_process = <<>>
    /\ extracted_jobs = rankJobs
    /\ final_jobs = None
    /\ findPc = "idle" /\ queryIdx = 1 /\ all_urls = {} /\ link_repeated = FALSE
    /\ calls_in_flight = 0 /\ delay_done = TRUE /\ last_response = "none"
    /\ processor = "process_urls_in_parallel"
    /\ pagePc = "idle" /\ batchUrls = <<>>
    /\ pageOutcome = <<>> /\ taskPc = <<>> /\ results = <<>>
    /\ detailPc = <<>> /\ detailResult = <<>>
    /\ job_board_pages = <<>> /\ node_return = None
    /\ context = <<>> /\ fetch_count = <<>>
    /\ ExtractIdle
    /\ LinksIdle
    /\ TaskIdle

\* rank_and_filter_jobs is called again, on the list it returned, with the
\* same resume, prompt and filter_params.
RankAgain ==
    /\ rankPc = "returned"
    /\ rankCall = 1
    /\ rankCall' = 2
    /\ first_sorted' = <<SortDesc(sorted_job_scores)>>
    /\ rankJobs' = rankResult
    /\ rankIdx' = 1
    /\ top_k_heap' = <<>>
    /\ sorted_job_scores' = <<>>
    /\ rankPc' = "loop"
    /\ UNCHANGED <<rankParams, rankResult>>
    /\ UNCHANGED <<runVars, findVars, pageVars, boardVars, taskVars, signalVars, notAgainVars>>

NextRank == RankJob \/ RankLoopEnd \/ RankPop \/ RankReturn \/ RankAgain

SpecRank == InitRank /\ [][NextRank]_vars


\* The rank variables while no ranking is stepped through.
RankIdle ==
    /\ rankJobs = <<>>
    /\ rankParams = [has_prompt |-> TRUE,
                     role_relevance_threshold |-> DefaultRoleRelevanceThreshold,
                     min_overall_score |-> DefaultMinOverallScore]
    /\ rankIdx = 1
    /\ top_k_heap = <<>>
    /\ rankPc = "idle"
    /\ sorted_job_scores = <<>>
    /\ rankResult = <<>>
    /\ rankCall = 1
    /\ first_sorted = None

\* ------------------------------------------------------------------------
\* The run: JobSearchService (job_search.py:86-126)
\* ------------------------------------------------------------------------
Urls == 1..MaxUrls

\* The sequences over S of length at most n.
SeqsUpTo(S, n) == UNION {[1..m -> S] : m \in 0..n}

\* What one call of the search provider gives: it raises, its answer is not
\* JSON, or it is a list of results (their links, repetitions allowed).
SearchOutcomes ==
    {[kind |-> "raise", links |-> <<>>], [kind |-> "malformed", links |-> <<>>]}
    \cup {[kind |-> "ok", links |-> l] : l \in SeqsUpTo(Urls, MaxLinks)}

Range(f) == {f[i] : i \in DOMAIN f}

\* A list that keeps a link each time it is returned: one element more
\* than the set has.
ListsWithRepeat(S) == {l \in [1..(Cardinality(S) + 1) -> S] : Range(l) = S}

\* list(all_urls): the elements of the set, each once, in some order.
ListsOf(S) == {l \in [1..Cardinality(S) -> S] : Range(l) = S}

\* What happens to one URL in the page processor.
\*   "error"      an exception in new_context, new_page, fetch or classify
\*                (fetch_page_text_node as page_processing.py:21 defines it
\*                takes the state alone, so that the call of job_search.py:41
\*                with a page and a url ends here; the outcomes below are
\*                those of the node process_url is written against)
\*   "empty"      the fetch gives no text
\*   "IRRELEVANT", "JOB_BOARD"   the classification of the text
\*   "JD_A", "JD_B"   classified JOB_DESCRIPTION, the extractor gives a job
\*   "JD_fail"    classified JOB_DESCRIPTION, the extractor gives nothing
\*   "ctx_error"  browser.new_context() raises: no context was opened
\*   "hang"       the server never answers the fetch
ProcessUrlOutcomes ==
    {"error", "empty", "IRRELEVANT", "JOB_BOARD", "JD_A", "JD_B", "JD_fail", "ctx_error", "hang"}

\* _fetch_and_extract_job_data does not classify and opens no context.
RetrieveOutcomes == {"error", "empty", "JD_A", "JD_B", "JD_fail", "hang"}

\* The Job the extractor builds from the page of url; source_url is set to
\* the url the text was fetched from (page_processing.py:96,
\* retrieve_parse.py:48).
ExtractedJob(url, outcome) ==
    [JobAt(url, 1, 107, 0) EXCEPT
        !.source_url = url,
        !.resume_similarity = IF outcome = "JD_A" THEN 50 ELSE 10]

\* The return value of process_url (job_search.py:33-57).
ProcessUrlResult(url, outcome) ==
    IF outcome \in {"error", "empty", "ctx_error", "hang"}
    THEN [page_text |-> None, classification |-> "IRRELEVANT", job |-> None]
    ELSE [page_text |-> <<url>>,
          classification |-> IF outcome \in {"IRRELEVANT", "JOB_BOARD"}
                             THEN outcome ELSE "JOB_DESCRIPTION",
          job |-> None]

\* The return value of _fetch_and_extract_job_data (retrieve_parse.py:31-56).
RetrieveResult(url, outcome) ==
    IF outcome \in {"JD_A", "JD_B"}
    THEN [page_text |-> <<url>>, classification |-> "", job |-> <<ExtractedJob(url, outcome)>>]
    ELSE [page_text |-> None, classification |-> "", job |-> None]

\* The return value of extract_job_details_node(page_text, url): the job
\* read from the text (id names the page the text was fetched from), with
\* source_url set to the url argument (page_processing.py:96).
ExtractResult(page_text, url, outcome) ==
    IF outcome \in {"JD_A", "JD_B"}
    THEN <<[ExtractedJob(page_text[1], outcome) EXCEPT !.source_url = url]>>
    ELSE None

NoResult == [page_text |-> None, classification |-> "", job |-> None]

SemaphoreCap(p) == IF p = "process_urls_in_parallel" THEN ProcessUrlsCap ELSE RetrieveParseCap

Batch == 1..Len(batchUrls)

InFlight == Cardinality({i \in Batch : taskPc[i] = "running"})

PageIdle ==
    /\ processor = "process_urls_in_parallel"
    /\ pagePc = "idle"
    /\ batchUrls = <<>>
    /\ pageOutcome = <<>>
    /\ taskPc = <<>>
    /\ results = <<>>
    /\ detailPc = <<>>
    /\ detailResult = <<>>
    /\ job_board_pages = <<>>
    /\ node_return = None
    /\ context = <<>>
    /\ fetch_count = <<>>

\* No call of find_urls_node is under way and none has just returned.
FindIdle ==
    /\ findPc = "idle"
    /\ queryIdx = 1
    /\ all_urls = {}
    /\ link_repeated = FALSE
    /\ calls_in_flight = 0
    /\ delay_done = TRUE
    /\ last_response = "none"

\* search_and_process_jobs is called with a resume text and a prompt, each
\* of which may be empty.
Init ==
    /\ stage = "init"
    /\ steps = 0
    /\ resume_text \in {"", "resume"}
    /\ search_prompt \in {"", "prompt"}
    /\ search_queries = <<>>
    /\ urls_to_process = <<>>
    /\ extracted_jobs = <<>>
    /\ final_jobs = None
    /\ FindIdle
    /\ PageIdle
    /\ RankIdle
    /\ ExtractIdle
    /\ LinksIdle
    /\ TaskIdle

\* ainvoke(..., config={"recursion_limit": 100}): a node is not run once
\* the budget of node executions is used up; the graph raises instead.
BudgetExceeded(n) == n >= recursion_limit

NextStep(n) == IF BudgetExceeded(n) THEN n ELSE n + 1

\* The run ends with an exception raised to the caller.
Fail ==
    /\ stage' = "Failed"
    /\ UNCHANGED <<resume_text, search_prompt, search_queries, urls_to_process,
                   extracted_jobs, final_jobs>>

\* Lines 109-117: the browser is launched and the graph is entered at
\* craft_query; launching may raise.
EnterGraph ==
    /\ stage = "init"
    /\ \/ stage' = "craft_query"
          /\ UNCHANGED <<resume_text, search_prompt, search_queries, urls_to_process,
                         extracted_jobs, final_jobs>>
       \/ Fail
    /\ UNCHANGED <<steps, findVars, pageVars, rankVars>>
    /\ UNCHANGED <<boardVars, taskVars, signalVars, otherVars>>

\* craft_query_node: the LLM returns a list of queries, or the call raises.
CraftQuery ==
    /\ stage = "craft_query"
    /\ steps' = NextStep(steps)
    /\ IF BudgetExceeded(steps) THEN Fail
       ELSE \/ \E n \in 0..MaxQueries :
                 /\ search_queries' = [q \in 1..n |-> q]
                 /\ stage' = "find_urls"
                 /\ UNCHANGED <<resume_text, search_prompt, urls_to_process,
                                extracted_jobs, final_jobs>>
            \/ Fail
    /\ UNCHANGED <<findVars, pageVars, rankVars>>
    /\ UNCHANGED <<boardVars, taskVars, signalVars, otherVars>>

\* find_urls_node, lines 10-17.
FindUrlsStart ==
    /\ stage = "find_urls"
    /\ findPc = "idle"
    /\ steps' = NextStep(steps)
    /\ IF BudgetExceeded(steps)
       THEN Fail /\ UNCHANGED findVars
       ELSE /\ findPc' = "loop"
            /\ queryIdx' = 1
            /\ all_urls' = {}
            /\ link_repeated' = FALSE
            /\ calls_in_flight' = 0
            /\ delay_done' = TRUE
            /\ last_response' = "none"
            /\ UNCHANGED <<stage, resume_text, search_prompt, search_queries,
                           urls_to_process, extracted_jobs, final_jobs>>
    /\ UNCHANGED <<pageVars, rankVars>>
    /\ UNCHANGED <<boardVars, taskVars, signalVars, otherVars>>

\* Line 19 for the query at queryIdx: search_tool.ainvoke is called and
\* awaited.
SearchCallStart ==
    /\ stage = "find_urls"
    /\ findPc = "loop"
    /\ queryIdx <= Len(search_queries)
    /\ findPc' = "calling"
    /\ calls_in_flight' = calls_in_flight + 1
    /\ UNCHANGED <<queryIdx, all_urls, link_repeated, delay_done, last_response,
                   runVars, pageVars, rankVars>>
    /\ UNCHANGED <<boardVars, taskVars, signalVars, otherVars>>

\* Lines 19-26: the awaited call ends (it raises, or gives its answer), the
\* answer is decoded and the links of the results are added to all_urls.
\* An exception of the call is raised outside the try of line 20 and
\* leaves the node; an answer that is not JSON is caught at line 25.
SearchCall ==
    /\ stage = "find_urls"
    /\ findPc = "calling"
    /\ calls_in_flight' = calls_in_flight - 1
    /\ delay_done' = FALSE
    /\ \E r \in SearchOutcomes :
          IF r.kind = "raise"
          THEN /\ Fail
               /\ findPc' = "idle"
               /\ UNCHANGED <<queryIdx, all_urls, link_repeated, last_response>>
          ELSE /\ all_urls' = all_urls \cup Range(r.links)
               /\ link_repeated' = (link_repeated \/ Cardinality(all_urls \cup Range(r.links))
                                                    < Cardinality(all_urls) + Len(r.links))
               /\ findPc' = "sleep"
               /\ last_response' = r.kind
               /\ UNCHANGED <<queryIdx, stage, resume_text, search_prompt, search_queries,
                              urls_to_process, extracted_jobs, final_jobs>>
    /\ UNCHANGED <<steps, pageVars, rankVars>>
    /\ UNCHANGED <<boardVars, taskVars, signalVars, otherVars>>

\* The loop goes round without moving on to the next query.
SearchSleepNoAdvance ==
    /\ stage = "find_urls"
    /\ findPc = "sleep"
    /\ findPc' = "loop"
    /\ delay_done' = TRUE
    /\ UNCHANGED <<queryIdx, all_urls, link_repeated, calls_in_flight, last_response,
                   runVars, pageVars, rankVars>>
    /\ UNCHANGED <<boardVars, taskVars, signalVars, otherVars>>

\* asyncio.sleep(1) placed inside the try statement, after the decoding: a
\* response that cannot be decoded skips it.
SearchSleepInsideTry ==
    /\ stage = "find_urls"
    /\ findPc = "sleep"
    /\ findPc' = "loop"
    /\ queryIdx' = queryIdx + 1
    /\ delay_done' = (last_response # "malformed")
    /\ UNCHANGED <<all_urls, link_repeated, calls_in_flight, last_response,
                   runVars, pageVars, rankVars>>
    /\ UNCHANGED <<boardVars, taskVars, signalVars, otherVars>>

\* Line 27: asyncio.sleep(1), after the try statement, then the next query.
SearchSleep ==
    /\ stage = "find_urls"
    /\ findPc = "sleep"
    /\ findPc' = "loop"
    /\ queryIdx' = queryIdx + 1
    /\ delay_done' = TRUE
    /\ UNCHANGED <<all_urls, link_repeated, calls_in_flight, last_response,
                   runVars, pageVars, rankVars>>
    /\ UNCHANGED <<boardVars, taskVars, signalVars, otherVars>>

\* A router that sends every run through the page processor.
RouterAlwaysProcess(urls) == "process_urls"

\* should_process_urls_router (job_search.py:18-21)
should_process_urls_router(urls) ==
    IF urls # <<>> THEN "process_urls" ELSE "finish_processing"

\* The conditional edges of job_search.py:97-101.
RouteAfterFindUrls(urls) ==
    IF should_process_urls_router(urls) = "process_urls"
    THEN "process_urls_in_parallel"
    ELSE "process_and_match"

\* Lines 29-33, and the routing of the graph after the node.
FindUrlsReturn ==
    /\ stage = "find_urls"
    /\ findPc = "loop"
    /\ queryIdx > Len(search_queries)
    /\ \E l \in ListsOf(all_urls) :
          /\ urls_to_process' = l
          /\ stage' = RouteAfterFindUrls(l)
    /\ findPc' = "returned"
    /\ UNCHANGED <<queryIdx, all_urls, link_repeated, calls_in_flight, delay_done,
                   last_response, steps, resume_text, search_prompt, search_queries,
                   extracted_jobs, final_jobs, pageVars, rankVars>>
    /\ UNCHANGED <<boardVars, taskVars, signalVars, otherVars>>

\* process_urls_in_parallel, lines 24-60: the tasks are created and
\* gathered.
ProcessUrlsStart ==
    /\ stage = "process_urls_in_parallel"
    /\ pagePc = "idle"
    /\ steps' = NextStep(steps)
    /\ IF BudgetExceeded(steps)
       THEN Fail /\ UNCHANGED <<pageVars, boardVars, slotVars>>
       ELSE /\ pagePc' = "gather_pages"
            /\ batchUrls' = urls_to_process
            /\ pageOutcome' \in [DOMAIN urls_to_process -> ProcessUrlOutcomes]
            /\ taskPc' = [i \in DOMAIN urls_to_process |-> "waiting"]
            /\ context' = [i \in DOMAIN urls_to_process |-> "none"]
            /\ fetch_count' = [i \in DOMAIN urls_to_process |-> 0]
            /\ results' = [i \in DOMAIN urls_to_process |-> NoResult]
            /\ detailPc' = [i \in DOMAIN urls_to_process |-> "none"]
            /\ detailResult' = [i \in DOMAIN urls_to_process |-> None]
            /\ job_board_pages' = <<>>
            /\ node_return' = None
            /\ UNCHANGED <<processor, stage, resume_text, search_prompt, search_queries,
                           urls_to_process, extracted_jobs, final_jobs>>
    /\ findPc' = "idle" /\ queryIdx' = 1 /\ all_urls' = {} /\ link_repeated' = FALSE
    /\ calls_in_flight' = 0 /\ delay_done' = TRUE /\ last_response' = "none"
    /\ UNCHANGED rankVars
    /\ UNCHANGED <<taskVars, signalVars, notSlotVars>>

\* The body under the semaphore is begun.  process_url opens a browser
\* context of its own (job_search.py:38), unless new_context raises, and
\* begins the fetch (line 41); _fetch_and_extract_job_data begins the fetch
\* with an httpx client (retrieve_parse.py:34-35).
EnterBody(i) ==
    /\ context' = [context EXCEPT ![i] =
                      IF processor = "process_urls_in_parallel" /\ pageOutcome[i] # "ctx_error"
                      THEN "open" ELSE @]
    /\ fetch_count' = [fetch_count EXCEPT ![i] =
                          IF pageOutcome[i] # "ctx_error" THEN @ + 1 ELSE @]

\* The task goes on without waiting for the semaphore.
AcquireSlotNoCap(i) ==
    /\ pagePc = "gather_pages"
    /\ taskPc[i] = "waiting"
    /\ taskPc' = [taskPc EXCEPT ![i] = "running"]
    /\ EnterBody(i)
    /\ UNCHANGED <<processor, batchUrls, pagePc, pageOutcome, results, detailPc, detailResult,
                   runVars, findVars, rankVars>>
    /\ UNCHANGED <<boardVars, taskVars, signalVars, notSlotVars>>

\* "async with semaphore" is entered by the task of the i-th URL.
AcquireSlot(i) ==
    /\ pagePc = "gather_pages"
    /\ taskPc[i] = "waiting"
    /\ InFlight < SemaphoreCap(processor)
    /\ taskPc' = [taskPc EXCEPT ![i] = "running"]
    /\ EnterBody(i)
    /\ UNCHANGED <<processor, batchUrls, pagePc, pageOutcome, results, detailPc, detailResult,
                   runVars, findVars, rankVars>>
    /\ UNCHANGED <<boardVars, taskVars, signalVars, notSlotVars>>

\* await context.close() on the value the local variable context holds:
\* an open context is closed, a closed one stays closed, and None has no
\* close (AttributeError).  Closing a context is taken not to raise.
CloseContext(ctx) ==
    IF ctx = "none"
    THEN [context |-> ctx, raised |-> TRUE]
    ELSE [context |-> "closed", raised |-> FALSE]

\* The exception handler closing whatever the variable holds, None too.
ExitBodyUnguarded(ctx, outcome) == CloseContext(ctx)

\* The way out of the body of process_url (job_search.py:43-57): the close
\* of line 44 (no page text), of line 48 (after classify), or of lines
\* 55-56 in the exception handler, which is behind "if context".
ExitBody(ctx, outcome) ==
    IF outcome \in {"error", "ctx_error"}
    THEN IF ctx # "none" THEN CloseContext(ctx) ELSE [context |-> ctx, raised |-> FALSE]
    ELSE CloseContext(ctx)

\* The context after the body of the task of the i-th URL has ended;
\* _fetch_and_extract_job_data has none.
ContextAtExit(i) ==
    IF processor = "process_urls_in_parallel"
    THEN ExitBody(context[i], pageOutcome[i])
    ELSE [context |-> context[i], raised |-> FALSE]

\* process_url without its "except Exception": the exception of the task
\* leaves asyncio.gather and the node.
FinishUrlUncaught(i) ==
    /\ pagePc = "gather_pages"
    /\ taskPc[i] = "running"
    /\ pageOutcome[i] # "hang"
    /\ IF pageOutcome[i] = "error"
       THEN /\ Fail
            /\ pagePc' = "idle"
            /\ UNCHANGED <<taskPc, results>>
       ELSE /\ taskPc' = [taskPc EXCEPT ![i] = "done"]
            /\ results' = [results EXCEPT ![i] =
                             IF processor = "process_urls_in_parallel"
                             THEN ProcessUrlResult(batchUrls[i], pageOutcome[i])
                             ELSE RetrieveResult(batchUrls[i], pageOutcome[i])]
            /\ UNCHANGED <<pagePc, runVars>>
    /\ context' = [context EXCEPT ![i] = ContextAtExit(i).context]
    /\ UNCHANGED fetch_count
    /\ UNCHANGED <<processor, batchUrls, pageOutcome, detailPc, detailResult,
                   steps, findVars, rankVars>>
    /\ UNCHANGED <<boardVars, taskVars, signalVars, notSlotVars>>

\* The body under the semaphore ends, by a return or by a caught
\* exception, and the semaphore is released.  An exception raised inside
\* the exception handler is not caught: it leaves the task, asyncio.gather
\* and the node.
FinishUrl(i) ==
    /\ pagePc = "gather_pages"
    /\ taskPc[i] = "running"
    /\ pageOutcome[i] # "hang"
    /\ context' = [context EXCEPT ![i] = ContextAtExit(i).context]
    /\ IF ContextAtExit(i).raised
       THEN /\ Fail
            /\ pagePc' = "idle"
            /\ UNCHANGED <<taskPc, results>>
       ELSE /\ taskPc' = [taskPc EXCEPT ![i] = "done"]
            /\ results' = [results EXCEPT ![i] =
                             IF processor = "process_urls_in_parallel"
                             THEN ProcessUrlResult(batchUrls[i], pageOutcome[i])
                             ELSE RetrieveResult(batchUrls[i], pageOutcome[i])]
            /\ UNCHANGED <<pagePc, runVars>>
    /\ UNCHANGED fetch_count
    /\ UNCHANGED <<processor, batchUrls, pageOutcome, detailPc, detailResult,
                   steps, findVars, rankVars>>
    /\ UNCHANGED <<boardVars, taskVars, signalVars, notSlotVars>>

\* The fetch is begun again after its timeout.
FetchTimeoutRetry(i) ==
    /\ pagePc = "gather_pages"
    /\ taskPc[i] = "running"
    /\ pageOutcome[i] = "hang"
    /\ fetch_count[i] < 2
    /\ fetch_count' = [fetch_count EXCEPT ![i] = @ + 1]
    /\ UNCHANGED <<context, pageVars, runVars, findVars, rankVars>>
    /\ UNCHANGED <<boardVars, taskVars, signalVars, notSlotVars>>

\* The server never answers: the httpx client gives up after its timeout
\* of 15 s (page_processing.py:41, retrieve_parse.py:34).  The exception
\* is caught where the fetch is made: fetch_page_text_node returns no text
\* (page_processing.py:61-63) and process_url takes the way of lines 43-45;
\* _fetch_and_extract_job_data returns None (retrieve_parse.py:52-56).
\* The semaphore is released; the URL is not fetched again.
FetchTimeout(i) ==
    /\ pagePc = "gather_pages"
    /\ taskPc[i] = "running"
    /\ pageOutcome[i] = "hang"
    /\ taskPc' = [taskPc EXCEPT ![i] = "done"]
    /\ results' = [results EXCEPT ![i] =
                     IF processor = "process_urls_in_parallel"
                     THEN ProcessUrlResult(batchUrls[i], pageOutcome[i])
                     ELSE RetrieveResult(batchUrls[i], pageOutcome[i])]
    /\ context' = [context EXCEPT ![i] = ContextAtExit(i).context]
    /\ UNCHANGED fetch_count
    /\ UNCHANGED <<processor, batchUrls, pagePc, pageOutcome, detailPc, detailResult,
                   runVars, findVars, rankVars>>
    /\ UNCHANGED <<boardVars, taskVars, signalVars, notSlotVars>>

\* [job for job in xs if job], xs indexed by the batch: the jobs that are
\* set, in the order of the batch.
RECURSIVE Truthy(_, _)
Truthy(xs, n) ==
    IF n = 0 THEN <<>>
    ELSE Truthy(xs, n - 1) \o xs[n]

\* job_search.py:62-75: the results are sorted into job description pages
\* and job boards, and one extract task per job description page is
\* created and gathered.
IsJobDescriptionPage(r) == r.classification = "JOB_DESCRIPTION" /\ r.page_text # None

\* Line 68.
IsJobBoardPage(r) == ~IsJobDescriptionPage(r) /\ r.classification = "JOB_BOARD"

StartDetails ==
    /\ processor = "process_urls_in_parallel"
    /\ pagePc = "gather_pages"
    /\ \A i \in Batch : taskPc[i] = "done"
    /\ pagePc' = "gather_details"
    /\ detailPc' = [i \in Batch |-> IF IsJobDescriptionPage(results[i]) THEN "running" ELSE "none"]
    /\ job_board_pages' = Truthy([i \in Batch |-> IF IsJobBoardPage(results[i])
                                                   THEN <<batchUrls[i]>> ELSE None],
                                 Len(batchUrls))
    /\ UNCHANGED node_return
    /\ UNCHANGED <<processor, batchUrls, pageOutcome, taskPc, results, detailResult,
                   runVars, findVars, rankVars>>
    /\ UNCHANGED <<taskVars, signalVars, otherVars>>

\* The position of the i-th URL in the list job_description_pages.
PagePosition(i) == Cardinality({n \in 1..i : detailPc[n] # "none"})

\* The url of the extract task is taken from urls_to_process at the
\* position the page has in job_description_pages.
FinishDetailByPagePosition(i) ==
    /\ pagePc = "gather_details"
    /\ detailPc[i] = "running"
    /\ detailPc' = [detailPc EXCEPT ![i] = "done"]
    /\ detailResult' = [detailResult EXCEPT ![i] =
                          ExtractResult(results[i].page_text, batchUrls[PagePosition(i)],
                                        pageOutcome[i])]
    /\ UNCHANGED <<processor, batchUrls, pagePc, pageOutcome, taskPc, results,
                   runVars, findVars, rankVars>>
    /\ UNCHANGED <<boardVars, taskVars, signalVars, otherVars>>

\* Lines 66 and 74: extract_job_details_node(page["text"], page["url"]) for
\* the page of the i-th URL ends; page["url"] is urls_to_process[i], the
\* i-th result of gather being the result of the i-th task.
FinishDetail(i) ==
    /\ pagePc = "gather_details"
    /\ detailPc[i] = "running"
    /\ detailPc' = [detailPc EXCEPT ![i] = "done"]
    /\ detailResult' = [detailResult EXCEPT ![i] =
                          ExtractResult(results[i].page_text, batchUrls[i], pageOutcome[i])]
    /\ UNCHANGED <<processor, batchUrls, pagePc, pageOutcome, taskPc, results,
                   runVars, findVars, rankVars>>
    /\ UNCHANGED <<boardVars, taskVars, signalVars, otherVars>>

\* The results are merged into the run state as soon as the pages are
\* sorted, without waiting for the extract tasks.
MergeBatchEarly ==
    /\ processor = "process_urls_in_parallel"
    /\ pagePc = "gather_details"
    /\ extracted_jobs' = Truthy(detailResult, Len(batchUrls))
    /\ urls_to_process' = <<>>
    /\ node_return' = [extracted_jobs |-> extracted_jobs', urls_to_process |-> urls_to_process']
    /\ UNCHANGED job_board_pages
    /\ stage' = "process_and_match"
    /\ pagePc' = "idle"
    /\ UNCHANGED <<processor, batchUrls, pageOutcome, taskPc, results, detailPc, detailResult,
                   steps, resume_text, search_prompt, search_queries, final_jobs,
                   findVars, rankVars>>
    /\ UNCHANGED <<taskVars, signalVars, otherVars>>

\* job_search.py:76-84: the node returns and the graph goes on to
\* process_and_match.
MergeBatch ==
    /\ processor = "process_urls_in_parallel"
    /\ pagePc = "gather_details"
    /\ \A i \in Batch : detailPc[i] # "running"
    /\ extracted_jobs' = Truthy(detailResult, Len(batchUrls))
    /\ urls_to_process' = <<>>
    /\ node_return' = [extracted_jobs |-> extracted_jobs', urls_to_process |-> urls_to_process']
    /\ UNCHANGED job_board_pages
    /\ stage' = "process_and_match"
    /\ pagePc' = "idle"
    /\ UNCHANGED <<processor, batchUrls, pageOutcome, taskPc, results, detailPc, detailResult,
                   steps, resume_text, search_prompt, search_queries, final_jobs,
                   findVars, rankVars>>
    /\ UNCHANGED <<taskVars, signalVars, otherVars>>

\* retrieve_parse.py:112-118: the gathered results without the None ones.
RetrieveReturn ==
    /\ processor = "retrieve_and_parse_node"
    /\ pagePc = "gather_pages"
    /\ \A i \in Batch : taskPc[i] = "done"
    /\ extracted_jobs' = Truthy([i \in Batch |-> results[i].job], Len(batchUrls))
    /\ node_return' = [retrieved_urls |-> batchUrls, extracted_jobs |-> extracted_jobs']
    /\ UNCHANGED job_board_pages
    /\ stage' = "process_and_match"
    /\ pagePc' = "idle"
    /\ UNCHANGED <<processor, batchUrls, pageOutcome, taskPc, results, detailPc, detailResult,
                   steps, resume_text, search_prompt, search_queries, urls_to_process,
                   final_jobs, findVars, rankVars>>
    /\ UNCHANGED <<taskVars, signalVars, otherVars>>

\* The filter_params rank_and_filter_jobs uses when none are given
\* (ranker.py:78-101).
DefaultFilterParams ==
    [has_prompt |-> TRUE,
     role_relevance_threshold |-> DefaultRoleRelevanceThreshold,
     min_overall_score |-> DefaultMinOverallScore]

\* process_and_match_node, lines 13-38: the early returns (then END:
\* search_and_process_jobs returns final_jobs), or the call of
\* rank_and_filter_jobs without filter_params.
ProcessAndMatchStart ==
    /\ stage = "process_and_match"
    /\ rankPc = "idle"
    /\ steps' = NextStep(steps)
    /\ IF BudgetExceeded(steps)
       THEN Fail /\ UNCHANGED rankVars
       ELSE IF extracted_jobs = <<>> \/ resume_text = "" \/ search_prompt = ""
            THEN /\ final_jobs' = <<<<>>>>
                 /\ stage' = "Done"
                 /\ UNCHANGED <<resume_text, search_prompt, search_queries, urls_to_process,
                                extracted_jobs, rankVars>>
            ELSE /\ rankJobs' = extracted_jobs
                 /\ rankParams' = DefaultFilterParams
                 /\ rankIdx' = 1
                 /\ top_k_heap' = <<>>
                 /\ rankPc' = "loop"
                 /\ UNCHANGED <<sorted_job_scores, rankResult, stage, resume_text,
                                search_prompt, search_queries, urls_to_process,
                                extracted_jobs, final_jobs>>
    /\ findPc' = "idle" /\ queryIdx' = 1 /\ all_urls' = {} /\ link_repeated' = FALSE
    /\ calls_in_flight' = 0 /\ delay_done' = TRUE /\ last_response' = "none"
    /\ UNCHANGED pageVars
    /\ UNCHANGED <<boardVars, taskVars, signalVars, otherVars>>

\* process_and_match_node without its "except Exception": the exception
\* of rank_and_filter_jobs leaves the node and the run.
ProcessAndMatchEndUncaught ==
    /\ stage = "process_and_match"
    /\ rankPc \in {"returned", "raised"}
    /\ IF rankPc = "raised"
       THEN Fail
       ELSE /\ extracted_jobs' = rankResult
            /\ final_jobs' = <<extracted_jobs'>>
            /\ stage' = "Done"
            /\ UNCHANGED <<resume_text, search_prompt, search_queries, urls_to_process>>
    /\ UNCHANGED <<steps, findVars, pageVars, rankVars>>
    /\ UNCHANGED <<boardVars, taskVars, signalVars, otherVars>>

\* process_and_match_node, lines 40-52: the node stores the ranked list
\* (or, when rank_and_filter_jobs raised, the list it read) under
\* state['extracted_jobs'] of the state it was handed, and returns that
\* entry as final_jobs; then END: search_and_process_jobs returns
\* final_jobs.  The list the node read is the list rank_and_filter_jobs
\* was given: its Job objects carry the embeddings that were stored on
\* them before the exception.
ProcessAndMatchEnd ==
    /\ stage = "process_and_match"
    /\ rankPc \in {"returned", "raised"}
    /\ extracted_jobs' = IF rankPc = "returned" THEN rankResult ELSE rankJobs
    /\ final_jobs' = <<extracted_jobs'>>
    /\ stage' = "Done"
    /\ UNCHANGED <<steps, resume_text, search_prompt, search_queries, urls_to_process,
                   findVars, pageVars, rankVars>>
    /\ UNCHANGED <<boardVars, taskVars, signalVars, otherVars>>

Next ==
    \/ EnterGraph
    \/ CraftQuery
    \/ FindUrlsStart
    \/ SearchCallStart
    \/ SearchCall
    \/ SearchSleep
    \/ FindUrlsReturn
    \/ ProcessUrlsStart
    \/ \E i \in Batch : AcquireSlot(i)
    \/ \E i \in Batch : FinishUrl(i)
    \/ \E i \in Batch : FetchTimeout(i)
    \/ StartDetails
    \/ \E i \in Batch : FinishDetail(i)
    \/ MergeBatch
    \/ ProcessAndMatchStart
    \/ RankJob
    \/ RankLoopEnd
    \/ RankPop
    \/ RankReturn
    \/ ProcessAndMatchEnd

Spec == Init /\ [][Next]_vars


\* The scheduling of the run: the event loop runs a task that is ready, and
\* every awaited call returns or raises.
SpecLive == Init /\ [][Next]_vars /\ WF_vars(Next)

\* ------------------------------------------------------------------------
\* The page processor on a batch longer than its cap.  The batch is
\* MaxBatch URLs; every period-th URL, from the first on, has one outcome
\* and the others another, but for the second URL, which has its own.
\* ------------------------------------------------------------------------
BatchFamilies ==
    { [processor |-> "process_urls_in_parallel", period |-> 2,
       hit |-> "JD_A", rest |-> "error", second |-> "ctx_error"],
      [processor |-> "process_urls_in_parallel", period |-> MaxBatch,
       hit |-> "JD_fail", rest |-> "JOB_BOARD", second |-> "hang"],
      [processor |-> "retrieve_and_parse_node", period |-> 3,
       hit |-> "JD_B", rest |-> "error", second |-> "hang"],
      [processor |-> "process_urls_in_parallel", period |-> 1,
       hit |-> "JD_B", rest |-> "JD_B", second |-> "JD_B"] }

FamilyOutcome(f, i) ==
    IF i = 2 THEN f.second
    ELSE IF i % f.period = 1 THEN f.hit ELSE f.rest

InitBatch ==
    /\ stage = "process_urls_in_parallel"
    /\ steps = 3
    /\ resume_text = "resume"
    /\ search_prompt = "prompt"
    /\ search_queries = <<1>>
    /\ urls_to_process = [i \in 1..MaxBatch |-> i]
    /\ extracted_jobs = <<>>
    /\ final_jobs = None
    /\ FindIdle
    /\ RankIdle
    /\ ExtractIdle
    /\ LinksIdle
    /\ \E f \in BatchFamilies :
          /\ processor = f.processor
          /\ pageOutcome = [i \in 1..MaxBatch |-> FamilyOutcome(f, i)]
    /\ pagePc = "gather_pages"
    /\ batchUrls = urls_to_process
    /\ taskPc = [i \in 1..MaxBatch |-> "waiting"]
    /\ results = [i \in 1..MaxBatch |-> NoResult]
    /\ detailPc = [i \in 1..MaxBatch |-> "none"]
    /\ detailResult = [i \in 1..MaxBatch |-> None]
    /\ job_board_pages = <<>>
    /\ node_return = None
    /\ context = [i \in 1..MaxBatch |-> "none"]
    /\ fetch_count = [i \in 1..MaxBatch |-> 0]
    /\ TaskIdle

NextBatch ==
    \/ \E i \in Batch : AcquireSlot(i)
    \/ \E i \in Batch : FinishUrl(i)
    \/ \E i \in Batch : FetchTimeout(i)
    \/ StartDetails
    \/ \E i \in Batch : FinishDetail(i)
    \/ MergeBatch
    \/ RetrieveReturn

SpecBatch == InitBatch /\ [][NextBatch]_vars

\* ------------------------------------------------------------------------
\* The page processor on a batch with fetches that never answer: those of
\* all URLs but the last, or that of the first URL alone.
\* ------------------------------------------------------------------------
HangFamilies ==
    { [processor |-> p, hanging |-> h] :
        p \in {"process_urls_in_parallel", "retrieve_and_parse_node"},
        h \in {1, MaxHangBatch - 1} }

InitHang ==
    /\ stage = "process_urls_in_parallel"
    /\ steps = 3
    /\ resume_text = "resume"
    /\ search_prompt = "prompt"
    /\ search_queries = <<1>>
    /\ urls_to_process = [i \in 1..MaxHangBatch |-> i]
    /\ extracted_jobs = <<>>
    /\ final_jobs = None
    /\ FindIdle
    /\ RankIdle
    /\ ExtractIdle
    /\ LinksIdle
    /\ \E f \in HangFamilies :
          /\ processor = f.processor
          /\ pageOutcome = [i \in 1..MaxHangBatch |->
                               IF i <= f.hanging THEN "hang"
                               ELSE IF i = MaxHangBatch THEN "JD_A" ELSE "error"]
    /\ pagePc = "gather_pages"
    /\ batchUrls = urls_to_process
    /\ taskPc = [i \in 1..MaxHangBatch |-> "waiting"]
    /\ results = [i \in 1..MaxHangBatch |-> NoResult]
    /\ detailPc = [i \in 1..MaxHangBatch |-> "none"]
    /\ detailResult = [i \in 1..MaxHangBatch |-> None]
    /\ job_board_pages = <<>>
    /\ node_return = None
    /\ context = [i \in 1..MaxHangBatch |-> "none"]
    /\ fetch_count = [i \in 1..MaxHangBatch |-> 0]
    /\ TaskIdle

\* The event loop runs a task that is ready, every awaited call that is
\* answered returns or raises, and the timeout of a fetch that is not
\* answered expires.
SpecHang == InitHang /\ [][NextBatch]_vars /\ WF_vars(NextBatch)

\* ------------------------------------------------------------------------
\* POST /agent-search (routers/jobs.py:174-350) and its background task
\* run_search.  Every redis_client.set may succeed or raise.
\* ------------------------------------------------------------------------
Users == 1..MaxUsers

\* The JSON documents the router writes to task:{task_id}.
TaskRecord(status, uid) == <<[status |-> status, user_id |-> uid]>>

\* One redis_client.set(key, value): the value is stored, or the call
\* raises and the key keeps what it held.
RedisSet(value, ok) ==
    /\ redis_writes' = redis_writes + 1
    /\ task_record' = IF ok THEN value ELSE task_record

OtherPrograms == <<rankVars, runVars, findVars, pageVars, boardVars, signalVars, otherVars>>

\* Lines 199-206: the initial status is written.
InitialWrite ==
    /\ routePc = "initial_write"
    /\ \E ok \in BOOLEAN :
          /\ RedisSet(TaskRecord("pending", <<user_id>>), ok)
          /\ routePc' = IF ok THEN "schedule" ELSE "initial_fallback"
    /\ UNCHANGED <<user_id, request_result, search_started, pipeline_result, task_jobs,
                   db_result, OtherPrograms>>

\* Lines 207-220: the handler writes the fallback record; this write is not
\* guarded, an exception of it ends the request.
InitialFallback ==
    /\ routePc = "initial_fallback"
    /\ \E ok \in BOOLEAN :
          /\ RedisSet(TaskRecord("pending", <<user_id>>), ok)
          /\ routePc' = IF ok THEN "schedule" ELSE "request_raised"
          /\ request_result' = IF ok THEN request_result ELSE "raised"
    /\ UNCHANGED <<user_id, search_started, pipeline_result, task_jobs,
                   db_result, OtherPrograms>>

\* Lines 333-350: run_search is added to the background tasks and the
\* request returns task_data.
Schedule ==
    /\ routePc = "schedule"
    /\ search_started' = TRUE
    /\ request_result' = "returned"
    /\ routePc' = "pipeline"
    /\ UNCHANGED <<user_id, task_record, redis_writes, pipeline_result, task_jobs,
                   db_result, OtherPrograms>>

\* Lines 232-239: search_and_process_jobs returns final_jobs or raises (the
\* keyword user_id, which job_search.py:106 does not accept, is the raise
\* outcome).
RunPipeline ==
    /\ routePc = "pipeline"
    /\ \/ \E n \in 0..MaxTaskJobs :
            /\ pipeline_result' = "result"
            /\ task_jobs' = n
            /\ routePc' = "save_jobs"
       \/ /\ pipeline_result' = "raised"
          /\ routePc' = "write_failed"
          /\ UNCHANGED task_jobs
    /\ UNCHANGED <<user_id, task_record, redis_writes, request_result, search_started,
                   db_result, OtherPrograms>>

\* Lines 241-252: the jobs, if any, are inserted into the database.
SaveJobs ==
    /\ routePc = "save_jobs"
    /\ IF task_jobs = 0
       THEN db_result' = "skipped" /\ routePc' = "write_completed"
       ELSE \/ db_result' = "ok" /\ routePc' = "write_completed"
            \/ db_result' = "raised" /\ routePc' = "write_failed"
    /\ UNCHANGED <<user_id, task_record, redis_writes, request_result, search_started,
                   pipeline_result, task_jobs, OtherPrograms>>

\* Lines 255-282: the completed record, with the result, is written.
WriteCompleted ==
    /\ routePc = "write_completed"
    /\ \E ok \in BOOLEAN :
          /\ RedisSet(TaskRecord("completed", <<user_id>>), ok)
          /\ routePc' = IF ok THEN "finished" ELSE "completed_fallback"
    /\ UNCHANGED <<user_id, request_result, search_started, pipeline_result, task_jobs,
                   db_result, OtherPrograms>>

\* Lines 283-293: the handler writes a completed record without the result
\* (and without user_id); an exception of this write reaches line 294.
CompletedFallback ==
    /\ routePc = "completed_fallback"
    /\ \E ok \in BOOLEAN :
          /\ RedisSet(TaskRecord("completed", None), ok)
          /\ routePc' = IF ok THEN "finished" ELSE "write_error"
    /\ UNCHANGED <<user_id, request_result, search_started, pipeline_result, task_jobs,
                   db_result, OtherPrograms>>

\* Lines 294-305: the handler records status "error"; an exception of this
\* write reaches line 307.
WriteError ==
    /\ routePc = "write_error"
    /\ \E ok \in BOOLEAN :
          /\ RedisSet(TaskRecord("error", <<user_id>>), ok)
          /\ routePc' = IF ok THEN "finished" ELSE "write_failed"
    /\ UNCHANGED <<user_id, request_result, search_started, pipeline_result, task_jobs,
                   db_result, OtherPrograms>>

\* Lines 307-323: the handler of run_search's outer try records "failed".
WriteFailed ==
    /\ routePc = "write_failed"
    /\ \E ok \in BOOLEAN :
          /\ RedisSet(TaskRecord("failed", <<user_id>>), ok)
          /\ routePc' = IF ok THEN "finished" ELSE "write_critical"
    /\ UNCHANGED <<user_id, request_result, search_started, pipeline_result, task_jobs,
                   db_result, OtherPrograms>>

\* Lines 324-332: the last attempt; its exception is passed over.
WriteCritical ==
    /\ routePc = "write_critical"
    /\ \E ok \in BOOLEAN : RedisSet(TaskRecord("error", None), ok)
    /\ routePc' = "finished"
    /\ UNCHANGED <<user_id, request_result, search_started, pipeline_result, task_jobs,
                   db_result, OtherPrograms>>

\* GET /task-status/{task_id} of routers/jobs.py (353-369), asked by the
\* user uid, on what Redis holds at the key: the HTTP status of the answer.
\* A record without a "user_id" entry makes line 362 raise KeyError.
get_task_status(record, uid) ==
    IF record = None THEN 404
    ELSE IF record[1].user_id = None THEN 500
    ELSE IF record[1].user_id[1] # uid THEN 403
    ELSE 200

\* The same route as routers/task.py defines it (13-47): the entry is read
\* with .get, and str(None) differs from the string of any user id.
task_get_task_status(record, uid) ==
    IF record = None THEN 404
    ELSE IF record[1].user_id = None THEN 403
    ELSE IF record[1].user_id[1] # uid THEN 403
    ELSE 200

\* ---------------------------------------------------------------------
\* extract_job_details_node (page_processing.py:66-116), one call.
\* ---------------------------------------------------------------------

\* What the structured extractor does when invoked (line 94): it raises,
\* returns None, or returns a Job.
ExtractorOutcomes == {"raise", "null", "job"}

\* What persisting does: get_mongo_client raises (database.py), or
\* ingest_job_and_embed raises (job_ingestion.py:10-15, 34-38), or the job
\* is stored.
PersistOutcomes == {"client_raise", "ingest_raise", "ok"}

\* The dict {} .
EmptyUpdate == {}

\* The dict {"extracted_jobs": [job]} of line 111.
JobUpdate(job) == {<<"extracted_jobs", <<job>>>>}

\* Lines 72-91: the state is read; without page text the node returns {};
\* otherwise the extraction chain is built.
ExtractStart ==
    /\ extractPc = "start"
    /\ IF current_page_text = ""
       THEN /\ extractPc' = "returned"
            /\ extract_update' = EmptyUpdate
       ELSE /\ extractPc' = "invoke"
            /\ UNCHANGED extract_update
    /\ UNCHANGED <<current_page_text, current_url, extractor_outcome, persist_outcome,
                   extracted_data, persisted>>
    /\ UNCHANGED <<rankVars, runVars, findVars, pageVars, boardVars, taskVars,
                   signalVars, notExtractVars>>

\* Lines 93-103 and 114-116: the chain is invoked inside the try. An
\* exception of ainvoke is caught at 114; a None passes the if of line 95
\* and makes extracted_data.model_dump() of line 103 raise AttributeError,
\* caught at 114 as well; a Job gets source_url set and is dumped.
InvokeExtractor ==
    /\ extractPc = "invoke"
    /\ CASE extractor_outcome = "raise" ->
              /\ extractPc' = "returned"
              /\ extract_update' = EmptyUpdate
              /\ UNCHANGED extracted_data
         [] extractor_outcome = "null" ->
              /\ extracted_data' = None
              /\ extractPc' = "returned"
              /\ extract_update' = EmptyUpdate
         [] extractor_outcome = "job" ->
              /\ extracted_data' = <<ExtractedJob(current_url, "JD_A")>>
              /\ extractPc' = "client"
              /\ UNCHANGED extract_update
    /\ UNCHANGED <<current_page_text, current_url, extractor_outcome, persist_outcome,
                   persisted>>
    /\ UNCHANGED <<rankVars, runVars, findVars, pageVars, boardVars, taskVars,
                   signalVars, notExtractVars>>

\* Lines 105-106 and 114-116: the Mongo client is fetched inside the outer
\* try.
GetMongoClient ==
    /\ extractPc = "client"
    /\ IF persist_outcome = "client_raise"
       THEN /\ extractPc' = "returned"
            /\ extract_update' = EmptyUpdate
       ELSE /\ extractPc' = "persist"
            /\ UNCHANGED extract_update
    /\ UNCHANGED <<current_page_text, current_url, extractor_outcome, persist_outcome,
                   extracted_data, persisted>>
    /\ UNCHANGED <<rankVars, runVars, findVars, pageVars, boardVars, taskVars,
                   signalVars, notExtractVars>>

\* IngestJob with the try of line 108 left out: the exception of
\* ingest_job_and_embed leaves the node.
IngestJobUncaught ==
    /\ extractPc = "persist"
    /\ IF persist_outcome = "ingest_raise"
       THEN /\ extractPc' = "raised"
            /\ UNCHANGED <<extract_update, persisted>>
       ELSE /\ persisted' = persisted \cup {extracted_data[1].source_url}
            /\ extract_update' = JobUpdate(extracted_data[1])
            /\ extractPc' = "returned"
    /\ UNCHANGED <<current_page_text, current_url, extractor_outcome, persist_outcome,
                   extracted_data>>
    /\ UNCHANGED <<rankVars, runVars, findVars, pageVars, boardVars, taskVars,
                   signalVars, notExtractVars>>

\* Lines 108-113: ingest_job_and_embed upserts the job under its source_url
\* (job_ingestion.py:34-38); only after it returned, the job is returned
\* under "extracted_jobs"; its exception is caught and {} returned.
IngestJob ==
    /\ extractPc = "persist"
    /\ IF persist_outcome = "ingest_raise"
       THEN /\ extractPc' = "returned"
            /\ extract_update' = EmptyUpdate
            /\ UNCHANGED persisted
       ELSE /\ persisted' = persisted \cup {extracted_data[1].source_url}
            /\ extract_update' = JobUpdate(extracted_data[1])
            /\ extractPc' = "returned"
    /\ UNCHANGED <<current_page_text, current_url, extractor_outcome, persist_outcome,
                   extracted_data>>
    /\ UNCHANGED <<rankVars, runVars, findVars, pageVars, boardVars, taskVars,
                   signalVars, notExtractVars>>

\* The node is called for a URL with or without page text; the collection
\* may already hold a job of some source_url.
InitExtract ==
    /\ extractPc = "start"
    /\ current_page_text \in {"", "text"}
    /\ current_url \in Urls
    /\ extractor_outcome \in ExtractorOutcomes
    /\ persist_outcome \in PersistOutcomes
    /\ extracted_data = None
    /\ extract_update = EmptyUpdate
    /\ persisted \in {{}, {1}}
    /\ stage = "init"
    /\ steps = 0
    /\ resume_text = "resume"
    /\ search_prompt = "prompt"
    /\ search_queries = <<>>
    /\ urls_to_process = <<>>
    /\ extracted_jobs = <<>>
    /\ final_jobs = None
    /\ FindIdle
    /\ PageIdle
    /\ RankIdle
    /\ LinksIdle
    /\ TaskIdle

NextExtract == ExtractStart \/ InvokeExtractor \/ GetMongoClient \/ IngestJob

SpecExtract == InitExtract /\ [][NextExtract]_vars

\* ---------------------------------------------------------------------
\* extract_urls_node and filter_urls (extract_urls.py:38-196), one call.
\* ---------------------------------------------------------------------

\* page.url of the job-board page (line 48) and urlparse of it (line 110),
\* the six components of the ParseResult.
base_url == "https://board.example/list"

root == <<"https", "board.example", "/list", "", "", "">>

\* The href attributes the page may carry, each with what resolve_url
\* (29-36: None for an empty href, else urljoin(base_url, href)) makes of
\* it and with the five tests of lines 99-103 evaluated on it: the keyword
\* lists of 58-77 searched in the lower-cased path and absolute URL, the
\* pattern of 52-55 searched in the href.
HrefTable ==
    [ h \in {"", "/jobs/1", "/blog/jobs-advice", "https://jobs.lever.co/acme/42",
             "/about", "https://www.linkedin.com/jobs/view/7"} |->
        CASE h = "" ->
               [ absolute_url |-> None,
                 has_positive_keyword |-> FALSE, has_positive_root |-> FALSE,
                 has_negative_keyword |-> FALSE, has_negative_root |-> FALSE,
                 has_job_pattern |-> FALSE ]
          [] h = "/jobs/1" ->
               [ absolute_url |-> <<"https://board.example/jobs/1">>,
                 has_positive_keyword |-> TRUE, has_positive_root |-> TRUE,
                 has_negative_keyword |-> FALSE, has_negative_root |-> FALSE,
                 has_job_pattern |-> TRUE ]
          [] h = "/blog/jobs-advice" ->
               [ absolute_url |-> <<"https://board.example/blog/jobs-advice">>,
                 has_positive_keyword |-> TRUE, has_positive_root |-> TRUE,
                 has_negative_keyword |-> TRUE, has_negative_root |-> FALSE,
                 has_job_pattern |-> FALSE ]
          [] h = "https://jobs.lever.co/acme/42" ->
               [ absolute_url |-> <<"https://jobs.lever.co/acme/42">>,
                 has_positive_keyword |-> FALSE, has_positive_root |-> TRUE,
                 has_negative_keyword |-> FALSE, has_negative_root |-> FALSE,
                 has_job_pattern |-> FALSE ]
          [] h = "/about" ->
               [ absolute_url |-> <<"https://board.example/about">>,
                 has_positive_keyword |-> FALSE, has_positive_root |-> FALSE,
                 has_negative_keyword |-> FALSE, has_negative_root |-> FALSE,
                 has_job_pattern |-> FALSE ]
          [] h = "https://www.linkedin.com/jobs/view/7" ->
               [ absolute_url |-> <<"https://www.linkedin.com/jobs/view/7">>,
                 has_positive_keyword |-> TRUE, has_positive_root |-> TRUE,
                 has_negative_keyword |-> FALSE, has_negative_root |-> TRUE,
                 has_job_pattern |-> TRUE ] ]

Hrefs == DOMAIN HrefTable

resolve_url(href) == HrefTable[href].absolute_url

\* Lines 88-108: the link is skipped when it does not resolve; it is a
\* candidate when a positive test holds and no negative one.
IsJobLink(href) ==
    LET t == HrefTable[href] IN
    /\ t.absolute_url # None
    /\ t.has_positive_root \/ t.has_positive_keyword \/ t.has_job_pattern
    /\ ~(t.has_negative_keyword \/ t.has_negative_root)

\* Lines 44-49: without a page the node raises ValueError.
LinksStart ==
    /\ linkPc = "start"
    /\ IF ~has_page
       THEN linkPc' = "raised"
       ELSE linkPc' = "collect"
    /\ job_links' = {}
    /\ UNCHANGED <<has_page, page_links, urls_extracted_job_boards, filtered_links,
                   links_update>>
    /\ UNCHANGED <<rankVars, runVars, findVars, pageVars, boardVars, taskVars,
                   signalVars, notLinkVars>>

\* Lines 79-108: the loop over the a[href] elements of the page.
CollectLinks ==
    /\ linkPc = "collect"
    /\ job_links' = {resolve_url(h)[1] : h \in {g \in Range(page_links) : IsJobLink(g)}}
    /\ linkPc' = "collected"
    /\ UNCHANGED <<has_page, page_links, urls_extracted_job_boards, filtered_links,
                   links_update>>
    /\ UNCHANGED <<rankVars, runVars, findVars, pageVars, boardVars, taskVars,
                   signalVars, notLinkVars>>

\* filter_urls (127-196), as line 124 iterates its return value: for an
\* empty list it returns the dict {"urls_to_process": []}, whose iteration
\* yields its one key; when the chain raises it returns []; otherwise the
\* job_urls the model answered, taken to be some of the URLs it was given.
filter_urls(urls_to_filter) ==
    IF urls_to_filter = {}
    THEN {<<"urls_to_process">>}
    ELSE {<<>>} \cup UNION {ListsOf(S) : S \in SUBSET urls_to_filter}

\* Lines 110-114: "github" is looked for among the six components of the
\* parsed base URL; the candidates go through filter_urls unless it is one.
FilterLinks ==
    /\ linkPc = "collected"
    /\ IF "github" \notin Range(root)
       THEN filtered_links' \in filter_urls(job_links)
       ELSE filtered_links' \in ListsOf(job_links)
    /\ linkPc' = "filtered"
    /\ UNCHANGED <<has_page, page_links, urls_extracted_job_boards, job_links,
                   links_update>>
    /\ UNCHANGED <<rankVars, runVars, findVars, pageVars, boardVars, taskVars,
                   signalVars, notLinkVars>>

\* Lines 121-125: the entries already in urls_to_process or in
\* urls_extracted_job_boards are dropped, the rest is returned.
ReturnLinks ==
    /\ linkPc = "filtered"
    /\ LET visited_urls_set == Range(urls_to_process) \cup Range(urls_extracted_job_boards)
           final_links == SelectSeq(filtered_links, LAMBDA link : link \notin visited_urls_set)
       IN links_update' = <<final_links>>
    /\ linkPc' = "returned"
    /\ UNCHANGED <<has_page, page_links, urls_extracted_job_boards, job_links,
                   filtered_links>>
    /\ UNCHANGED <<rankVars, runVars, findVars, pageVars, boardVars, taskVars,
                   signalVars, notLinkVars>>

\* The lists of at most n elements of S.
ListsUpTo(S, n) == UNION {[1..m -> S] : m \in 0..n}

\* The node is called on a job-board page with up to MaxPageLinks links,
\* or without a page; the state may already hold URLs of the page.
InitLinks ==
    /\ linkPc = "start"
    /\ has_page \in BOOLEAN
    /\ page_links \in ListsUpTo(Hrefs, MaxPageLinks)
    /\ urls_extracted_job_boards \in {<<>>, <<"https://jobs.lever.co/acme/42">>}
    /\ job_links = {}
    /\ filtered_links = <<>>
    /\ links_update = None
    /\ stage = "init"
    /\ steps = 0
    /\ resume_text = "resume"
    /\ search_prompt = "prompt"
    /\ search_queries = <<>>
    /\ urls_to_process \in {<<>>, <<"https://board.example/jobs/1">>}
    /\ extracted_jobs = <<>>
    /\ final_jobs = None
    /\ FindIdle
    /\ PageIdle
    /\ RankIdle
    /\ ExtractIdle
    /\ TaskIdle

NextLinks == LinksStart \/ CollectLinks \/ FilterLinks \/ ReturnLinks

SpecLinks == InitLinks /\ [][NextLinks]_vars

\* A request of some user arrives; Redis may hold nothing yet at the key,
\* the run variables of the other programs stand idle.
InitTask ==
    /\ routePc = "initial_write"
    /\ user_id \in Users
    /\ task_record = None
    /\ redis_writes = 0
    /\ request_result = "pending"
    /\ search_started = FALSE
    /\ pipeline_result = "none"
    /\ task_jobs = 0
    /\ db_result = "none"
    /\ SignalsIdle
    /\ stage = "init"
    /\ steps = 0
    /\ resume_text = "resume"
    /\ search_prompt = "prompt"
    /\ search_queries = <<>>
    /\ urls_to_process = <<>>
    /\ extracted_jobs = <<>>
    /\ final_jobs = None
    /\ FindIdle
    /\ PageIdle
    /\ RankIdle
    /\ ExtractIdle
    /\ LinksIdle

NextTask ==
    \/ InitialWrite
    \/ InitialFallback
    \/ Schedule
    \/ RunPipeline
    \/ SaveJobs
    \/ WriteCompleted
    \/ CompletedFallback
    \/ WriteError
    \/ WriteFailed
    \/ WriteCritical

SpecTask == InitTask /\ [][NextTask]_vars

\* ------------------------------------------------------------------------
\* The signals rank_and_filter_jobs computes for one job from the parsed
\* resume and the parsed job description (ranker.py:77-101, 157-165,
\* 218-234).  A quotient of two counts is kept as the fraction [num, den];
\* the experience signals are in hundredths.
\* ------------------------------------------------------------------------
Skills == 1..MaxSkills

\* The levels parse_resume and parse_job_description emit
\* (parse_resume.py:64-74, 115-125).
ParserLevels == {"not specified", "internship", "entry_level", "mid-level", "senior", "lead"}

\* EXPERIENCE_LEVELS.get(level, -1) with the table of ranker.py:22-29, whose
\* keys are internship, entry_level, mid-level, senior, lead, not specified.
EXPERIENCE_LEVELS(level) ==
    CASE level = "internship"  -> 0
      [] level = "entry_level" -> 1
      [] level = "mid-level"   -> 2
      [] level = "senior"      -> 3
      [] level = "lead"        -> 4
      [] OTHER                 -> -1

MAX_EXPERIENCE_DIFF == 4

Abs(x) == IF x < 0 THEN -x ELSE x

\* 1 - log2(1 + d) / log2(1 + MAX_EXPERIENCE_DIFF) for d = 0..4, in
\* hundredths (ExperienceMatchTable): 1.00, 0.57, 0.32, 0.14, 0.00.
LogDecay(d) == ExperienceMatchTable[d + 1]

\* The weights of lines 93-100 and 105-112, in tenths.
DefaultWeights ==
    [resume_match |-> 4, prompt_match |-> 3, skill_overlap |-> 2,
     experience_match |-> 1, job_description_match |-> 4, proximity_score |-> 3]

\* A weights entry a caller gives.
GivenWeights ==
    [resume_match |-> 5, prompt_match |-> 2, skill_overlap |-> 1,
     experience_match |-> 1, job_description_match |-> 0, proximity_score |-> 1]

\* Lines 77-112: filter_params is filled in.
ResolveWeights ==
    /\ sigPc = "start"
    /\ weights' = IF weights_arg = "given" THEN <<GivenWeights>> ELSE <<DefaultWeights>>
    /\ sigPc' = "resolved"
    /\ UNCHANGED <<weights_arg, resume_skills, job_skills, resume_exp, job_exp,
                   skill_overlap, exp_match, experience_match>>
    /\ UNCHANGED <<rankVars, runVars, findVars, pageVars, boardVars, taskVars, otherVars>>

\* Lines 157-165: the signals of overall_score.
OverallSignals ==
    /\ sigPc = "resolved"
    /\ skill_overlap' = <<[num |-> Cardinality(resume_skills \cap job_skills),
                           den |-> Max(Cardinality(job_skills), 1)]>>
    /\ exp_match' = <<IF resume_exp = job_exp THEN 100 ELSE 0>>
    /\ sigPc' = "overall"
    /\ UNCHANGED <<weights_arg, weights, resume_skills, job_skills, resume_exp, job_exp,
                   experience_match>>
    /\ UNCHANGED <<rankVars, runVars, findVars, pageVars, boardVars, taskVars, otherVars>>

\* Lines 218-234: skill_overlap is computed anew and experience_match is
\* computed, for the weighted sum of lines 273-280.
FinalSignals ==
    /\ sigPc = "overall"
    /\ skill_overlap' = <<[num |-> Cardinality(resume_skills \cap job_skills),
                           den |-> Max(Max(Cardinality(resume_skills),
                                           Cardinality(job_skills)), 1)]>>
    /\ LET resume_experience_level == EXPERIENCE_LEVELS(resume_exp)
           job_experience_level == EXPERIENCE_LEVELS(job_exp)
       IN  experience_match' =
              <<IF resume_experience_level = -1 /\ job_experience_level = -1 THEN 100
                ELSE IF resume_experience_level = -1 \/ job_experience_level = -1 THEN 50
                ELSE LogDecay(Abs(resume_experience_level - job_experience_level))>>
    /\ sigPc' = "final"
    /\ UNCHANGED <<weights_arg, weights, resume_skills, job_skills, resume_exp, job_exp,
                   exp_match>>
    /\ UNCHANGED <<rankVars, runVars, findVars, pageVars, boardVars, taskVars, otherVars>>

\* rank_and_filter_jobs is called with or without filter_params, for a
\* resume and a job with any skill sets and any levels the parsers emit.
InitSignals ==
    /\ sigPc = "start"
    /\ weights_arg \in {"omitted", "no_weights", "given"}
    /\ weights = None
    /\ resume_skills \in SUBSET Skills
    /\ job_skills \in SUBSET Skills
    /\ resume_exp \in ParserLevels
    /\ job_exp \in ParserLevels
    /\ skill_overlap = None
    /\ exp_match = None
    /\ experience_match = None
    /\ routePc = "idle"
    /\ user_id = 1
    /\ task_record = None
    /\ redis_writes = 0
    /\ request_result = "pending"
    /\ search_started = FALSE
    /\ pipeline_result = "none"
    /\ task_jobs = 0
    /\ db_result = "none"
    /\ stage = "process_and_match"
    /\ steps = 0
    /\ resume_text = "resume"
    /\ search_prompt = "prompt"
    /\ search_queries = <<>>
    /\ urls_to_process = <<>>
    /\ extracted_jobs = <<>>
    /\ final_jobs = None
    /\ FindIdle
    /\ PageIdle
    /\ RankIdle
    /\ ExtractIdle
    /\ LinksIdle

NextSignals == ResolveWeights \/ OverallSignals \/ FinalSignals

SpecSignals == InitSignals /\ [][NextSignals]_vars

\* ========================================================================
\* Properties of rank_and_filter_jobs (checked under SpecRank)
\* ========================================================================
\* The jobs that reach the heap: a description (line 137) and an overall
\* score not below role_relevance_threshold (line 183).
PassesFilters(job, params) ==
    /\ job.has_description
    /\ overall_score(job, params) >= params.role_relevance_threshold * 10

ResultIds == {rankResult[i].id : i \in 1..Len(rankResult)}

\* C1: whenever rank_and_filter_jobs has returned, the list holds at most
\* k = 100 jobs and the score of each job (the JobScore.score the engine
\* computed for it) is greater than or equal to the score of the next one.
C1_AtMostKSortedDescending ==
    rankPc = "returned" =>
        /\ Len(rankResult) <= k
        /\ \A i \in 1..(Len(rankResult) - 1) :
              overall_score(rankResult[i], rankParams)
                  >= overall_score(rankResult[i + 1], rankParams)

\* C1 witness: a list of more than k jobs was ranked and k jobs with
\* different scores were returned.
C1_Witness ==
    /\ rankPc = "returned"
    /\ Len(rankJobs) > k
    /\ Len(rankResult) = k
    /\ overall_score(rankResult[1], rankParams) > overall_score(rankResult[k], rankParams)

\* C2: whenever rank_and_filter_jobs has returned, no job that passed the
\* filters and is missing from the result has a score strictly greater than
\* a job of the result.
C2_TopKByScore ==
    rankPc = "returned" =>
        \A i \in 1..Len(rankJobs) :
            (PassesFilters(rankJobs[i], rankParams) /\ rankJobs[i].id \notin ResultIds)
            => \A r \in 1..Len(rankResult) :
                  overall_score(rankJobs[i], rankParams)
                      <= overall_score(rankResult[r], rankParams)

\* C2 witness: the ranking returned and a job that passed the filters was
\* left out, the last job of the input made it into the result (it replaced
\* the minimum of the full heap).
C2_Witness ==
    /\ rankPc = "returned"
    /\ \E i \in 1..Len(rankJobs) :
          PassesFilters(rankJobs[i], rankParams) /\ rankJobs[i].id \notin ResultIds
    /\ rankJobs[Len(rankJobs)].id \in ResultIds

\* C3: every job of the returned list has its score field set to the score
\* the engine computed for it.
C3_ScorePopulated ==
    rankPc = "returned" =>
        \A i \in 1..Len(rankResult) :
            rankResult[i].score = <<overall_score(rankResult[i], rankParams)>>

\* C4: no job whose final score (weighted sum times role relevance) is
\* below min_overall_score is in the returned list.
C4_NoJobBelowMinOverallScore ==
    rankPc = "returned" =>
        \A i \in 1..Len(rankResult) :
            final_score(rankResult[i], rankParams)
                >= rankParams.min_overall_score * FinalScale


\* ========================================================================
\* Properties of the page processor and of the run
\* ========================================================================
\* C5: at every moment of page processing, with either function and its
\* cap (10 or 5), the number of URL tasks that hold the semaphore (their
\* fetch may be in flight) is at most the cap.
C5_InFlightWithinCap == InFlight <= SemaphoreCap(processor)

\* C5 witness: process_urls_in_parallel has ten tasks in flight and another
\* URL of the batch is waiting for the semaphore.
C5_Witness ==
    /\ processor = "process_urls_in_parallel"
    /\ InFlight = ProcessUrlsCap
    /\ \E i \in Batch : taskPc[i] = "waiting"

JobOutcomes == {"JD_A", "JD_B"}

BatchCompleted == batchUrls # <<>> /\ pagePc = "idle"

NoDuplicates(l) == \A i, j \in DOMAIN l : l[i] = l[j] => i = j

\* C7: when find_urls_node has returned, urls_to_process holds every link
\* that was added to all_urls, each exactly once.
C7_DiscoveredUrlsDistinct ==
    findPc = "returned" =>
        /\ NoDuplicates(urls_to_process)
        /\ Range(urls_to_process) = all_urls

\* C7 witness: find_urls_node returned after the searches had returned more
\* links than there are distinct ones.
C7_Witness ==
    /\ findPc = "returned"
    /\ urls_to_process # <<>>
    /\ link_repeated

\* C8: whenever find_urls_node returns no URL, the run goes on to end in
\* Done with final_jobs = [] after three node executions (craft_query,
\* find_urls, process_and_match: the page processor is not run).
C8_EmptyDiscoveryCompletes ==
    (findPc = "returned" /\ urls_to_process = <<>>)
        ~> (stage = "Done" /\ final_jobs = <<<<>>>> /\ steps = 3)

\* C8 witness: a run in which query crafting produced no query has ended in
\* Done with an empty final_jobs and without the page processor.
C8_Witness ==
    /\ stage = "Done"
    /\ search_queries = <<>>
    /\ final_jobs = <<<<>>>>
    /\ steps = 3
    /\ batchUrls = <<>>

\* C9: every run eventually ends, in Done or Failed, and never executes
\* more nodes than the recursion limit.
C9_RunTerminates ==
    /\ <>(stage \in {"Done", "Failed"})
    /\ [](steps <= recursion_limit)

\* C9 witness: a run that went through all four nodes with a full batch of
\* URLs has ended in Done.
C9_Witness ==
    /\ stage = "Done"
    /\ steps = 4
    /\ Len(batchUrls) = MaxUrls

\* C10: with an empty resume text or an empty search prompt no node is
\* executed and the run does not end in Done.
C10_AbsentInputFailsBeforeAnyStage ==
    (resume_text = "" \/ search_prompt = "") => (steps = 0 /\ stage # "Done")


\* ========================================================================
\* Properties of find_urls_node
\* ========================================================================
\* C11: no step of find_urls_node fails the run: a search-provider call
\* that raises or whose response is malformed counts as zero results for
\* its query and the node goes on.
C11_ProviderFailureIsNotFatal ==
    [][stage = "find_urls" => stage' # "Failed"]_vars

\* C12: at most one search-provider call is in flight at any moment, and a
\* call begins only when the delay of line 27 has run since the call before
\* it ended (or no call has been made yet).
C12_SearchCallsSequentialWithDelay ==
    /\ [](calls_in_flight <= 1)
    /\ [][calls_in_flight' > calls_in_flight => delay_done]_vars

\* C12 witness: the call of the second query is in flight, after the
\* response to the first query could not be decoded and the delay has run.
C12_Witness ==
    /\ findPc = "calling"
    /\ queryIdx = 2
    /\ calls_in_flight = 1
    /\ last_response = "malformed"
    /\ delay_done


\* ========================================================================
\* Properties of the task status records
\* ========================================================================
\* C13: no failure of a write to Redis ends the request before run_search
\* is scheduled, and a run whose pipeline returned its result (and whose
\* jobs were saved) is never recorded as failed or error.
C13_SinkFailureNeverBlocksOrFails ==
    /\ request_result # "raised"
    /\ (pipeline_result = "result" /\ db_result # "raised" /\ task_record # None)
          => task_record[1].status \notin {"failed", "error"}


\* ========================================================================
\* Properties of the page processor's return value
\* ========================================================================
JobBoardUrls == {batchUrls[i] : i \in {n \in Batch : pageOutcome[n] = "JOB_BOARD"}}

IrrelevantUrls == {batchUrls[i] : i \in {n \in Batch : pageOutcome[n] = "IRRELEVANT"}}

\* C14: what process_urls_in_parallel returns has, beside extracted_jobs, a
\* list that holds exactly the URLs classified JOB_BOARD; no URL classified
\* IRRELEVANT is in it or is the source of an extracted job.
C14_JobBoardsReturnedSeparately ==
    (processor = "process_urls_in_parallel" /\ node_return # None) =>
        /\ \E key \in DOMAIN node_return \ {"extracted_jobs"} :
              /\ Range(node_return[key]) = JobBoardUrls
              /\ Range(node_return[key]) \cap IrrelevantUrls = {}
        /\ \A j \in DOMAIN node_return.extracted_jobs :
              node_return.extracted_jobs[j].source_url \notin (IrrelevantUrls \cup JobBoardUrls)


IsPrefix(a, b) == Len(a) <= Len(b) /\ \A i \in DOMAIN a : a[i] = b[i]

\* C16: every step of a run leaves the jobs already in extracted_jobs in
\* place and in order: the list before the step is a prefix of the list
\* after it.
C16_ExtractedJobsAppendOnly ==
    [][IsPrefix(extracted_jobs, extracted_jobs')]_vars

TasksInFlight ==
    \E i \in Batch : taskPc[i] # "done" \/ detailPc[i] = "running"

\* C17: extracted_jobs of the run state changes in no step taken while a
\* URL task or an extract task of the batch is unfinished, and while one is
\* unfinished the stage is still the page processor and the ranking has
\* not begun.
C17_SingleMergeAfterBatch ==
    /\ [][TasksInFlight => extracted_jobs' = extracted_jobs]_vars
    /\ [](TasksInFlight => (stage = "process_urls_in_parallel" /\ rankPc = "idle"))

\* C17 witness: the ranking stage is reached with the jobs of a whole batch
\* of several URLs merged.
C17_Witness ==
    /\ stage = "process_and_match"
    /\ rankPc = "loop"
    /\ BatchCompleted
    /\ Len(batchUrls) >= 2
    /\ Len(extracted_jobs) = Len(batchUrls)


\* ========================================================================
\* Properties of the ranking signals (checked under SpecSignals)
\* ========================================================================
\* Equality and order of two fractions with positive denominators.
FracEq(x, y) == x.num * y.den = y.num * x.den

FracLeq(x, y) == x.num * y.den <= y.num * x.den

\* |R \cap J| / |R \cup J|, the denominator floored at 1.
Jaccard(R, J) ==
    [num |-> Cardinality(R \cap J), den |-> Max(Cardinality(R \cup J), 1)]

Zero == [num |-> 0, den |-> 1]

One == [num |-> 1, den |-> 1]

\* C18: each time the engine has computed skill_overlap, its value is the
\* Jaccard similarity of the resume's and the job's skill sets; it lies in
\* [0,1], is 0 for disjoint sets and 1 for identical nonempty sets.
C18_SkillOverlapIsJaccard ==
    sigPc \in {"overall", "final"} =>
        /\ FracEq(skill_overlap[1], Jaccard(resume_skills, job_skills))
        /\ FracLeq(Zero, skill_overlap[1]) /\ FracLeq(skill_overlap[1], One)
        /\ (resume_skills \cap job_skills = {} => FracEq(skill_overlap[1], Zero))
        /\ ((resume_skills = job_skills /\ resume_skills # {}) => FracEq(skill_overlap[1], One))

\* The tier of a level as the parsers emit it.
Tier(level) ==
    CASE level = "internship"  -> 0
      [] level = "entry_level" -> 1
      [] level = "mid-level"   -> 2
      [] level = "senior"      -> 3
      [] level = "lead"        -> 4

\* The experience match of two emitted levels: 1.0, 0.5, or the log decay
\* of the tier difference (hundredths).
ExpectedExperienceMatch(a, b) ==
    IF a = "not specified" /\ b = "not specified" THEN 100
    ELSE IF a = "not specified" \/ b = "not specified" THEN 50
    ELSE LogDecay(Abs(Tier(a) - Tier(b)))

\* C19: the experience signal the engine has computed for a score, the one
\* of overall_score as well as the one of the weighted sum, is the expected
\* experience match of the two levels.
C19_ExperienceMatchLogDecay ==
    /\ exp_match # None => exp_match[1] = ExpectedExperienceMatch(resume_exp, job_exp)
    /\ experience_match # None =>
          experience_match[1] = ExpectedExperienceMatch(resume_exp, job_exp)

WeightSum(w) ==
    w.resume_match + w.prompt_match + w.skill_overlap + w.experience_match
    + w.job_description_match + w.proximity_score

\* C20: when filter_params is omitted or has no 'weights' entry, the
\* weights the engine uses add up to 1.0 (ten tenths).
C20_DefaultWeightsSumToOne ==
    (weights # None /\ weights_arg \in {"omitted", "no_weights"}) => WeightSum(weights[1]) = 10

\* C21: ranking is idempotent.  When rank_and_filter_jobs is called again
\* on the list it returned, with the same resume, prompt and parameters and
\* a deterministic embedding provider, the second call does not raise and
\* returns the same jobs, with the same scores, in the same order, although
\* the first call stored embeddings on the Job objects.
C21_RankingIdempotent ==
    rankCall = 2 =>
        /\ rankPc # "raised"
        /\ rankPc = "returned" =>
              /\ SortDesc(sorted_job_scores) = first_sorted[1]
              /\ [i \in 1..Len(rankResult) |-> rankResult[i].id]
                    = [i \in 1..Len(first_sorted[1]) |-> first_sorted[1][i].job]

\* The second call has returned a list of several jobs which the first call
\* had to reorder and on which it stored the embeddings.
C21_Witness ==
    /\ rankCall = 2
    /\ rankPc = "returned"
    /\ Len(rankResult) >= 3
    /\ rankResult[1].id > rankResult[2].id
    /\ rankResult[1].description_embedding # None
    /\ rankResult[1].has_title_embedding

\* The URLs of the batch that are being fetched or classified (the task of
\* the URL is inside process_url or _fetch_and_extract_job_data) or
\* extracted (the extract task of the URL's page has not ended).
InProgress == Cardinality({i \in Batch : taskPc[i] = "running" \/ detailPc[i] = "running"})

\* C22: the concurrency cap covers fetching, classifying and extracting: at
\* every moment of page processing at most N URLs of the batch are in one
\* of the three sub-steps (N = 10 for process_urls_in_parallel, 5 for
\* retrieve_and_parse_node).
C22_CapCoversAllSubSteps ==
    pagePc # "idle" => InProgress <= SemaphoreCap(processor)

\* C23: page processing completes although fetches never answer.  No URL is
\* fetched more than once in the stage; a URL whose fetch hung ends as a
\* failure, with no page text and no job; and eventually the batch has
\* completed, the node has returned, and the job of every URL whose page
\* gave one is in extracted_jobs (the slots the hanging fetches held were
\* released for the URLs behind them).
C23_HangingFetchTimesOut ==
    /\ [](\A i \in Batch : fetch_count[i] <= 1)
    /\ [](\A i \in Batch :
            (pageOutcome[i] = "hang" /\ taskPc[i] = "done")
            => (results[i].page_text = None /\ results[i].job = None))
    /\ <>(/\ BatchCompleted
          /\ node_return # None
          /\ \A i \in Batch :
                pageOutcome[i] \in JobOutcomes
                => \E j \in DOMAIN extracted_jobs :
                      extracted_jobs[j] = ExtractedJob(batchUrls[i], pageOutcome[i]))

\* A batch of retrieve_and_parse_node has completed in which as many
\* fetches hung as there are slots, and the job of the URL behind them was
\* extracted.
C23_Witness ==
    /\ BatchCompleted
    /\ processor = "retrieve_and_parse_node"
    /\ Cardinality({i \in Batch : pageOutcome[i] = "hang"}) >= RetrieveParseCap
    /\ \A i \in Batch : pageOutcome[i] = "hang" => fetch_count[i] = 1
    /\ Len(extracted_jobs) = 1

InputPosition(id) == CHOOSE i \in 1..Len(rankJobs) : rankJobs[i].id = id

\* C25: jobs of equal score do not make rank_and_filter_jobs fail, and they
\* are returned in the order they had in the input: the call on the given
\* list never raises, and when it has returned, of two neighbours of the
\* result with the same score the first stood earlier in the input.
C25_TiesKeepInputOrder ==
    rankCall = 1 =>
        /\ rankPc # "raised"
        /\ rankPc = "returned" =>
              \A i \in 1..(Len(rankResult) - 1) :
                  overall_score(rankResult[i], rankParams)
                      = overall_score(rankResult[i + 1], rankParams)
                  => InputPosition(rankResult[i].id) < InputPosition(rankResult[i + 1].id)

\* The jobs of a list without the embeddings stored on them.
WithoutEmbeddings(jobs) ==
    [i \in DOMAIN jobs |->
        [jobs[i] EXCEPT !.description_embedding = None, !.has_title_embedding = FALSE]]

\* C27: an exception of rank_and_filter_jobs does not fail the run.  Once
\* the call has raised the run is never failed, and when the node has
\* ended final_jobs is the list of extracted jobs the node received from
\* the page stage: the same jobs in the same order, none dropped (apart
\* from the embeddings the engine stored on them before it raised).
C27_RankFailureFallsBack ==
    rankPc = "raised" =>
        /\ stage # "Failed"
        /\ stage = "Done" =>
              /\ final_jobs # None
              /\ WithoutEmbeddings(final_jobs[1]) = node_return.extracted_jobs

\* The run is done after rank_and_filter_jobs raised on two extracted jobs,
\* on the first of which it had stored an embedding.
C27_Witness ==
    /\ rankPc = "raised"
    /\ stage = "Done"
    /\ Len(final_jobs[1]) = 2
    /\ final_jobs[1][1].description_embedding # None
    /\ final_jobs[1][1].id # final_jobs[1][2].id

\* C28: every browser context a URL task of process_urls_in_parallel
\* opened is closed when the task ends.  A task inside its body has a
\* context of its own open (unless new_context raised); a task that has
\* ended has none open, whichever way it took; when the batch is no longer
\* being gathered no context is open; and the run is never failed while a
\* task is inside its body, which is what an exception raised by a close
\* in the exception handler would do.
C28_ContextsClosed ==
    processor = "process_urls_in_parallel" =>
        /\ \A i \in DOMAIN context :
              /\ (taskPc[i] = "running" /\ pageOutcome[i] # "ctx_error") => context[i] = "open"
              /\ taskPc[i] = "waiting" => context[i] = "none"
              /\ taskPc[i] = "done" => context[i] # "open"
              /\ (taskPc[i] = "done" /\ pageOutcome[i] # "ctx_error") => context[i] = "closed"
        /\ pagePc # "gather_pages" => \A i \in DOMAIN context : context[i] # "open"
        /\ stage = "Failed" => \A i \in DOMAIN context : taskPc[i] # "running"

\* A batch has completed in which one task ended in the exception handler
\* and the other on the way of an empty page text, both with their
\* contexts closed.
C28_Witness ==
    /\ BatchCompleted
    /\ processor = "process_urls_in_parallel"
    /\ Len(batchUrls) = 2
    /\ pageOutcome[1] = "error"
    /\ pageOutcome[2] = "empty"
    /\ context = <<"closed", "closed">>

\* C29: every record the endpoint has written under task:{task_id} carries
\* the user_id of the user who started the task, and a status request of
\* that user is answered 200 by either definition of the status route
\* while the record exists.
C29_RecordCarriesUserId ==
    task_record # None =>
        /\ task_record[1].user_id = <<user_id>>
        /\ get_task_status(task_record, user_id) = 200
        /\ task_get_task_status(task_record, user_id) = 200
\* C26: in extract_job_details_node, when the structured extractor raises
\* or returns None, or fetching the Mongo client or ingesting the job
\* raises, the node returns the empty update and raises nothing; the node
\* returns a job under "extracted_jobs" only when the extractor returned
\* it and ingest_job_and_embed stored it.
C26_FailedExtractionContributesNothing ==
    /\ extractPc # "raised"
    /\ extractPc = "returned" =>
          /\ (current_page_text # ""
                /\ (extractor_outcome \in {"raise", "null"} \/ persist_outcome # "ok"))
             => extract_update = EmptyUpdate
          /\ extract_update # EmptyUpdate =>
                /\ extractor_outcome = "job"
                /\ persist_outcome = "ok"
                /\ extracted_data # None
                /\ extract_update = JobUpdate(extracted_data[1])
                /\ extracted_data[1].source_url = current_url
                /\ current_url \in persisted

\* The extractor returned a job for a page with text, ingesting it raised,
\* and the node has returned.
C26_Witness ==
    /\ extractPc = "returned"
    /\ current_page_text # ""
    /\ extractor_outcome = "job"
    /\ persist_outcome = "ingest_raise"
    /\ extracted_data # None
    /\ extract_update = EmptyUpdate

\* C30: every entry of the urls_extracted_job_boards list extract_urls_node
\* returns is the absolute URL of a link of the page that passed the
\* keyword tests, and is neither in the state's urls_to_process nor in its
\* urls_extracted_job_boards.
C30_ReturnedLinksAreNewPageLinks ==
    linkPc = "returned" =>
        \A i \in DOMAIN links_update[1] :
            /\ \E h \in Range(page_links) :
                  IsJobLink(h) /\ links_update[1][i] = resolve_url(h)[1]
            /\ links_update[1][i] \notin Range(urls_to_process)
            /\ links_update[1][i] \notin Range(urls_extracted_job_boards)

====
